---- MODULE Spec2Model ----
(***************************************************************************)
(* The consensus engine of the node: block acceptance, transaction        *)
(* validation, UTXO rebuild, difficulty, fork choice and reorg, as        *)
(* implemented by src/src/core/chain.rs and the modules it calls.         *)
(*                                                                         *)
(* Abstractions.  A 32-byte digest is a record [lead, pre]: `lead` is the *)
(* number formed by its leading TARGET_BYTES bytes (what proof-of-work    *)
(* compares with the target) and `pre` is the hashed value, which stands  *)
(* for the remaining bytes of a collision-free hash.  A signature is the  *)
(* key that produced it over the transaction's sighash.  Widths and the   *)
(* consensus parameters are scaled down; each scaled value is named.      *)
(***************************************************************************)
EXTENDS Integers, Sequences, FiniteSets, TLC

VARIABLES pc, blocks, utxos, blocks_file, utxos_file, call, offer

\* The mempool (src/src/node/mempool.rs) and the last call made on it.
VARIABLES entries, spent_outpoints, mp_call

\* The threads of the process (src/src/main.rs): for each its position, the
\* mutexes it holds in the order it took them, and its local values.
VARIABLES threads

\* The network as on_receive (src/src/node/p2p.rs) sees it: the chain a peer
\* holds, which of its blocks the peer has sent, the message last handled
\* and what the handler sent back.
VARIABLES net

\* The runtime policy a caller is holding, how it was built and the last
\* answer one of its methods gave (node/mod.rs).
VARIABLES policy

\* Blockchain::mempool, the list the API pushes to (core/chain.rs), and the
\* last answer of an API handler (interface/api.rs).
VARIABLES mempool, api

\* The TCP peer table (src/src/p2p.rs): the peers map, the inbound streams
\* the listener has seen and the threads connect_to_peer started.
VARIABLES tcp

\* What the node holds besides its chain.
node_vars == <<entries, spent_outpoints, mp_call, threads, net, policy, mempool, api, tcp>>

vars == <<pc, blocks, utxos, blocks_file, utxos_file, call, offer, node_vars>>

(* ------------------------------ bounds -------------------------------- *)

\* Longest chain the node holds and longest candidate a peer offers.
MaxLen == 3
\* Wall-clock readings are 0..MaxNow (seconds after the genesis timestamp).
MaxNow == 2
\* The nonce search of mine() is cut off after this nonce.
MaxNonce == 1
\* Bytes of a target and of the compared part of a hash (32 in the source).
TARGET_BYTES == 1
\* Width of a u64 (64 in the source).
U64_BITS == 2
\* 100 in the source.
COINBASE_MATURITY == 1
\* 1000 in the source.
CONSENSUS_V2_HEIGHT == 2
\* 1_000_000 bytes in the source; here in units of one input or output.
MAX_BLOCK_SIZE == 9

(* ------------------- consensus parameters (params.rs) ------------------ *)

MTP_WINDOW == 3
MAX_FUTURE_DRIFT == 1
DIFFICULTY_ADJUSTMENT_INTERVAL == 1
TARGET_BLOCK_TIME == 2
INITIAL_REWARD == 2
HALVING_INTERVAL == 2

Space == 256 ^ TARGET_BYTES
U64_MAX == 2 ^ U64_BITS - 1

MAX_TARGET == [i \in 1..TARGET_BYTES |-> IF i = 1 THEN 127 ELSE 255]
MIN_TARGET == [i \in 1..TARGET_BYTES |-> IF i = TARGET_BYTES THEN 1 ELSE 0]

(* ------------------------------ helpers -------------------------------- *)

Min(a, b) == IF a <= b THEN a ELSE b
Max(a, b) == IF a >= b THEN a ELSE b

\* Rust's integer division truncates toward zero.
TruncDiv(a, b) == IF a >= 0 THEN a \div b ELSE -((-a) \div b)

saturating_add(a, b) == Min(a + b, U64_MAX)

\* Big-endian value of a byte string.
RECURSIVE from_bytes_be(_)
from_bytes_be(t) ==
    IF Len(t) = 0 THEN 0
    ELSE 256 * from_bytes_be(SubSeq(t, 1, Len(t) - 1)) + t[Len(t)]

(* ------------------------------ crypto --------------------------------- *)

\* `what` names the kind of value hashed, as its serialization does.
sha256(what, x) == [lead |-> 0, pre |-> <<what, x>>]

ZeroHash == [lead |-> 0, pre |-> <<>>]

pubkey_hash(pubkey) == sha256("pubkey", pubkey)

\* A signature verifies under the key that made it.
verify_signature(msg, sig, pubkey) == sig = pubkey

(* --------------------------- transactions ------------------------------ *)

txid(tx) == sha256("tx", tx)

sighash(tx) == sha256("tx", tx)

\* format!("{}:{}", hex::encode(txid), index)
OutKey(id, index) == <<id, index>>

(* ------------------------------ merkle --------------------------------- *)

RECURSIVE MerklePairs(_)
MerklePairs(hs) ==
    IF Len(hs) = 0 THEN <<>>
    ELSE <<sha256("pair", <<hs[1], hs[2]>>)>> \o MerklePairs(SubSeq(hs, 3, Len(hs)))

RECURSIVE MerkleReduce(_)
MerkleReduce(hs) ==
    IF Len(hs) <= 1 THEN hs[1]
    ELSE LET padded == IF Len(hs) % 2 = 1 THEN Append(hs, hs[Len(hs)]) ELSE hs
         IN  MerkleReduce(MerklePairs(padded))

merkle_root(txs) ==
    IF Len(txs) = 0 THEN ZeroHash
    ELSE MerkleReduce([i \in 1..Len(txs) |-> txid(txs[i])])

(* ------------------------------ blocks --------------------------------- *)

\* The leading bytes of double-SHA256 of a header: a fixed scrambling of the
\* header's numeric fields.  The nonce flips the top bit, so a search over
\* two nonces finds a hash in the lower half of the space.
PowLead(header) ==
    ((header.height + header.timestamp + header.nonce) % 2) * (Space \div 2)
    + ((3 * header.height + 5 * header.timestamp + 7 * header.nonce
        + header.prev_hash.lead) % 8) * (Space \div 256)

hash_header(header) == [lead |-> PowLead(header), pre |-> <<"header", header>>]

\* hash, read as a big-endian integer, is at most target.
valid_pow(hash, target) == hash.lead <= from_bytes_be(target)

verify_pow(b) ==
    /\ b.hash = hash_header(b.header)
    /\ valid_pow(b.hash, b.header.target)

\* mine(): raise the nonce until the hash meets the target, then cache it.
\* The set is empty when no nonce up to MaxNonce does.
mine(b) ==
    LET good == {n \in b.header.nonce..MaxNonce :
                    valid_pow(hash_header([b.header EXCEPT !.nonce = n]),
                              b.header.target)}
    IN  IF good = {} THEN {}
        ELSE LET n == CHOOSE m \in good : \A k \in good : m <= k
                 h == [b.header EXCEPT !.nonce = n]
             IN  {[b EXCEPT !.header = h, !.hash = hash_header(h)]}

\* bincode::serialize(&block).len(), in units of one input or output.
TxSize(tx) == 1 + Len(tx.inputs) + Len(tx.outputs)

RECURSIVE TxsSize(_)
TxsSize(txs) ==
    IF Len(txs) = 0 THEN 0 ELSE TxSize(Head(txs)) + TxsSize(Tail(txs))

block_size(b) == 1 + TxsSize(b.transactions)

block_reward(height) == INITIAL_REWARD \div (2 ^ (height \div HALVING_INTERVAL))

(* ---------------------------- difficulty ------------------------------- *)

\* [u8; 32] arrays compare lexicographically, which is the big-endian order.
clamp_target(target) ==
    IF from_bytes_be(target) > from_bytes_be(MAX_TARGET) THEN MAX_TARGET
    ELSE IF from_bytes_be(target) < from_bytes_be(MIN_TARGET) THEN MIN_TARGET
    ELSE target

calculate_next_target(chain) ==
    IF Len(chain) = 0 THEN MAX_TARGET
    ELSE LET height == Len(chain)
             last == chain[height]
         IN  IF height < DIFFICULTY_ADJUSTMENT_INTERVAL + 1
                THEN last.header.target
             ELSE IF height % DIFFICULTY_ADJUSTMENT_INTERVAL # 0
                THEN last.header.target
             ELSE LET first == chain[height - DIFFICULTY_ADJUSTMENT_INTERVAL]
                      actual_time == last.header.timestamp - first.header.timestamp
                      expected_time == TARGET_BLOCK_TIME * DIFFICULTY_ADJUSTMENT_INTERVAL
                      new_target ==
                        [i \in 1..Len(last.header.target) |->
                            Max(0, Min(255,
                                TruncDiv(last.header.target[i] * actual_time,
                                         expected_time)))]
                  IN  clamp_target(new_target)

(* ---------------------------- fork choice ------------------------------ *)

RECURSIVE cumulative_work(_)
cumulative_work(chain) ==
    IF Len(chain) = 0 THEN 0
    ELSE LET b == chain[Len(chain)]
             target == from_bytes_be(b.header.target)
             rest == cumulative_work(SubSeq(chain, 1, Len(chain) - 1))
         IN  IF target = 0 THEN rest ELSE rest + Space \div (target + 1)

median_time_past(chain) ==
    LET n == Min(MTP_WINDOW, Len(chain))
        times == [i \in 1..n |-> chain[Len(chain) - i + 1].header.timestamp]
        \* times[times.len() / 2] of the sorted list: the value with exactly
        \* n / 2 positions before it in sorted order.
        k == n \div 2
    IN  CHOOSE t \in {times[i] : i \in 1..n} :
            /\ Cardinality({i \in 1..n : times[i] < t}) <= k
            /\ Cardinality({i \in 1..n : times[i] <= t}) > k

(* ------------------------------- UTXO ---------------------------------- *)

EmptyUtxos == [k \in {} |-> 0]

utxos_remove(u, key) == [k \in DOMAIN u \ {key} |-> u[k]]

utxos_insert(u, key, entry) == (key :> entry) @@ u

RECURSIVE RemoveInputs(_, _)
RemoveInputs(u, inputs) ==
    IF Len(inputs) = 0 THEN u
    ELSE RemoveInputs(
            utxos_remove(u, OutKey(Head(inputs).txid, Head(inputs).index)),
            Tail(inputs))

RECURSIVE InsertOutputs(_, _, _, _, _, _)
InsertOutputs(u, id, outputs, i, height, is_coinbase) ==
    IF i > Len(outputs) THEN u
    ELSE InsertOutputs(
            utxos_insert(u, OutKey(id, i - 1),
                [value |-> outputs[i].value,
                 pubkey_hash |-> outputs[i].pubkey_hash,
                 height |-> height,
                 is_coinbase |-> is_coinbase]),
            id, outputs, i + 1, height, is_coinbase)

\* The transaction loop body without `self.utxos.remove(&key)`: the variant
\* against which the replay property C7 is tested.
ApplyTx_keeps_inputs(u, tx, tx_index, height) ==
    InsertOutputs(u, txid(tx), tx.outputs, 1, height,
                  tx_index = 0 /\ Len(tx.inputs) = 0)

\* One iteration of the transaction loop of rebuild_utxos.
ApplyTx(u, tx, tx_index, height) ==
    InsertOutputs(RemoveInputs(u, tx.inputs), txid(tx), tx.outputs, 1, height,
                  tx_index = 0 /\ Len(tx.inputs) = 0)

RECURSIVE ApplyTxs(_, _, _, _)
ApplyTxs(u, txs, i, height) ==
    IF i > Len(txs) THEN u
    ELSE ApplyTxs(ApplyTx(u, txs[i], i - 1, height), txs, i + 1, height)

RECURSIVE ApplyBlocks(_, _, _)
ApplyBlocks(u, chain, i) ==
    IF i > Len(chain) THEN u
    ELSE ApplyBlocks(
            ApplyTxs(u, chain[i].transactions, 1, chain[i].header.height),
            chain, i + 1)

rebuild_utxos(chain) == ApplyBlocks(EmptyUtxos, chain, 1)

(* ----------------------- transaction validation ------------------------ *)

RECURSIVE InputSum(_, _)
InputSum(inputs, u) ==
    IF Len(inputs) = 0 THEN 0
    ELSE saturating_add(
            u[OutKey(inputs[Len(inputs)].txid, inputs[Len(inputs)].index)].value,
            InputSum(SubSeq(inputs, 1, Len(inputs) - 1), u))

RECURSIVE OutputSum(_)
OutputSum(outputs) ==
    IF Len(outputs) = 0 THEN 0
    ELSE saturating_add(outputs[Len(outputs)].value,
                        OutputSum(SubSeq(outputs, 1, Len(outputs) - 1)))

\* PublicKey::from_slice fails on bytes that are no curve point (key 0).
ParsesAsPublicKey(pubkey) == pubkey # 0

InputOk(tx, i, u, current_height) ==
    LET input == tx.inputs[i]
        key == OutKey(input.txid, input.index)
    IN  /\ \A j \in 1..(i - 1) :
              OutKey(tx.inputs[j].txid, tx.inputs[j].index) # key
        /\ key \in DOMAIN u
        /\ u[key].is_coinbase => current_height >= u[key].height + COINBASE_MATURITY
        /\ ParsesAsPublicKey(input.pubkey)
        /\ pubkey_hash(input.pubkey) = u[key].pubkey_hash
        /\ verify_signature(sighash(tx), input.signature, input.pubkey)

validate_transaction(tx, u, current_height) ==
    IF Len(tx.inputs) = 0 THEN TRUE
    ELSE /\ \A i \in 1..Len(tx.inputs) : InputOk(tx, i, u, current_height)
         /\ InputSum(tx.inputs, u) >= OutputSum(tx.outputs)

enforce_coinbase_maturity(tx, u, current_height) ==
    IF Len(tx.inputs) = 0 THEN TRUE
    ELSE \A i \in 1..Len(tx.inputs) :
            LET key == OutKey(tx.inputs[i].txid, tx.inputs[i].index)
            IN  /\ key \in DOMAIN u
                /\ u[key].is_coinbase =>
                      current_height >= u[key].height + COINBASE_MATURITY

(* --------------------------- chain validation -------------------------- *)

validate_chain(chain) ==
    /\ Len(chain) # 0
    /\ \A i \in 2..Len(chain) :
          LET prev == chain[i - 1]
              b == chain[i]
          IN  /\ b.header.height = prev.header.height + 1
              /\ b.header.prev_hash = prev.hash
              /\ b.header.target = calculate_next_target(SubSeq(chain, 1, i - 1))
              /\ verify_pow(b)
              /\ merkle_root(b.transactions) = b.header.merkle_root

\* The early returns with `<` in place of `<=`: a candidate of equal work
\* would replace the incumbent.  The variant against which C8 is tested.
reorg_accepts_ties(candidate, current) ==
    /\ validate_chain(candidate)
    /\ ~ (cumulative_work(candidate) < cumulative_work(current))

\* The early returns without the validate_chain call: the variant against
\* which C9 is tested.
reorg_accepts_unvalidated(candidate, current) ==
    ~ (cumulative_work(candidate) <= cumulative_work(current))

\* The two early returns of maybe_reorg.
reorg_accepts(candidate, current) ==
    /\ validate_chain(candidate)
    /\ ~ (cumulative_work(candidate) <= cumulative_work(current))

RECURSIVE fork_scan(_, _, _, _)
fork_scan(current, candidate, i, fork_height) ==
    IF i >= Min(Len(current), Len(candidate)) THEN fork_height
    ELSE IF current[i + 1].hash # candidate[i + 1].hash THEN fork_height
    ELSE fork_scan(current, candidate, i + 1, i)

\* The loop of maybe_reorg that sets fork_height (indices from 0).
find_fork_height(current, candidate) == fork_scan(current, candidate, 0, 0)

\* disconnect_to_height: pop while height() > height; popped blocks in pop
\* order.  The result is <<blocks left, orphaned>>.
disconnect_to_height(chain, height) ==
    LET keep == Min(Len(chain), height)
    IN  <<SubSeq(chain, 1, keep),
          [i \in 1..(Len(chain) - keep) |-> chain[Len(chain) - i + 1]]>>

(* ------------------------ block acceptance rules ----------------------- *)

RECURSIVE TrueOutputSum(_)
TrueOutputSum(outputs) ==
    IF Len(outputs) = 0 THEN 0
    ELSE outputs[1].value + TrueOutputSum(Tail(outputs))

\* The header checks without the height and prev_hash comparison of
\* chain.rs 164-178: the variant against which C15 is tested.
header_rules_unlinked(chain, block, now) ==
    /\ Len(chain) # 0 =>
          /\ ~ (block.header.timestamp <= median_time_past(chain))
          /\ ~ (block.header.timestamp > now + MAX_FUTURE_DRIFT)
    /\ block.header.target = calculate_next_target(chain)
    /\ verify_pow(block)
    /\ merkle_root(block.transactions) = block.header.merkle_root
    /\ ~ (block_size(block) > MAX_BLOCK_SIZE)
    /\ Len(block.transactions) # 0 => Len(block.transactions[1].inputs) = 0

\* Every check of validate_and_add_block before the coinbase reward sum.
header_rules(chain, block, now) ==
    /\ IF Len(chain) = 0
          THEN block.header.height = 0
          ELSE /\ block.header.height = Len(chain)
               /\ block.header.prev_hash = chain[Len(chain)].hash
    /\ Len(chain) # 0 =>
          /\ ~ (block.header.timestamp <= median_time_past(chain))
          /\ ~ (block.header.timestamp > now + MAX_FUTURE_DRIFT)
    /\ block.header.target = calculate_next_target(chain)
    /\ verify_pow(block)
    /\ merkle_root(block.transactions) = block.header.merkle_root
    /\ ~ (block_size(block) > MAX_BLOCK_SIZE)
    /\ Len(block.transactions) # 0 => Len(block.transactions[1].inputs) = 0

\* cb.outputs.iter().map(|o| o.value).sum() overflows u64.
reward_sum_overflows(block) ==
    /\ Len(block.transactions) # 0
    /\ TrueOutputSum(block.transactions[1].outputs) > U64_MAX

\* The coinbase reward check, on the wrapped sum a release build computes.
coinbase_rules(block) ==
    Len(block.transactions) # 0 =>
        ~ ((TrueOutputSum(block.transactions[1].outputs) % (U64_MAX + 1))
              > block_reward(block.header.height))

\* The loop over the block's transactions.
transaction_rules(u, block) ==
    \A i \in 1..Len(block.transactions) :
        /\ validate_transaction(block.transactions[i], u, block.header.height)
        /\ block.header.height >= CONSENSUS_V2_HEIGHT =>
              enforce_coinbase_maturity(block.transactions[i], u,
                                        block.header.height)

(* --------------------- what peers and the miner offer ------------------ *)

EmptyBytes == [lead |-> 0, pre |-> <<"empty">>]

Out(value, key) == [value |-> value, pubkey_hash |-> pubkey_hash(key)]

In(id, index, key, sig) ==
    [txid |-> id, index |-> index, pubkey |-> key, signature |-> sig,
     address_index |-> 0]

revelation_tx ==
    [inputs |-> <<>>,
     outputs |-> <<[value |-> 0, pubkey_hash |-> sha256("text", "REVELATION BLOCK 0")]>>]

\* A coinbase of one coin to key 1, and transactions that spend its output.
CbA == [inputs |-> <<>>, outputs |-> <<Out(1, 1)>>]
SpendA == [inputs |-> <<In(txid(CbA), 0, 1, 1)>>, outputs |-> <<Out(1, 2)>>]
SpendA2 == [inputs |-> <<In(txid(CbA), 0, 1, 1)>>, outputs |-> <<Out(1, 1)>>]
OverSpendA == [inputs |-> <<In(txid(CbA), 0, 1, 1)>>, outputs |-> <<Out(2, 2)>>]
\* Coinbases above the reward: plainly, and by a sum that wraps to 0.
CbOver == [inputs |-> <<>>, outputs |-> <<Out(U64_MAX, 1)>>]
CbWrap == [inputs |-> <<>>, outputs |-> <<Out(U64_MAX, 1), Out(1, 1)>>]

\* A transaction without inputs that is not the first of its block.
Gift == [inputs |-> <<>>, outputs |-> <<Out(2, 2), Out(2, 2)>>]

OtherTxLists ==
    {<<CbA, SpendA>>, <<CbA, SpendA, SpendA2>>, <<CbA, OverSpendA>>,
     <<CbOver>>, <<CbWrap>>, <<>>}

NewBlock(height, timestamp, prev_hash, target, txs) ==
    [header |-> [height |-> height, timestamp |-> timestamp,
                 prev_hash |-> prev_hash, nonce |-> 0, target |-> target,
                 merkle_root |-> merkle_root(txs)],
     transactions |-> txs,
     hash |-> EmptyBytes]

\* A block assembled on the tip of `chain` as mine_block does, then mined.
BlockOn(chain, timestamp, txs) ==
    mine(NewBlock(chain[Len(chain)].header.height + 1, timestamp,
                  chain[Len(chain)].hash, calculate_next_target(chain), txs))

\* Well-formed blocks on `chain`.  A run draws its blocks from one of three
\* families: "headers" varies the timestamp around the median-time-past
\* under the plain coinbase, "transactions" varies the transaction list
\* under the usual timestamp, "gifts" puts an input-less transaction after
\* the coinbase or leaves it out.
GoodBlocks(family, chain) ==
    LET mtp == median_time_past(chain)
    IN  IF family = "headers"
           THEN UNION {BlockOn(chain, ts, <<CbA>>) : ts \in mtp..(mtp + 2)}
           ELSE IF family = "gifts"
           THEN UNION {BlockOn(chain, mtp + 1, txs) :
                          txs \in {<<CbA>>, <<CbA, Gift>>}}
           ELSE UNION {BlockOn(chain, mtp + 1, txs) :
                          txs \in {<<CbA>>} \cup OtherTxLists}

\* Blocks on `chain` that each break one header rule.
TamperedBlocks(family, chain) ==
    LET tip == chain[Len(chain)]
        ts == median_time_past(chain) + 1
        target == calculate_next_target(chain)
        easy == [i \in 1..TARGET_BYTES |-> 255]
        wrong_height ==
            mine(NewBlock(tip.header.height + 2, ts, tip.hash, target, <<CbA>>))
        wrong_prev ==
            mine(NewBlock(tip.header.height + 1, ts, ZeroHash, target, <<CbA>>))
        wrong_target ==
            mine(NewBlock(tip.header.height + 1, ts, tip.hash, easy, <<CbA>>))
        wrong_merkle ==
            {[b EXCEPT !.transactions = <<CbA, SpendA>>] :
                b \in BlockOn(chain, ts, <<CbA>>)}
        wrong_hash ==
            {[b EXCEPT !.hash = ZeroHash] : b \in BlockOn(chain, ts, <<CbA>>)}
        no_work ==
            {[b EXCEPT !.header.nonce = b.header.nonce + 1,
                       !.hash = hash_header(
                           [b.header EXCEPT !.nonce = b.header.nonce + 1])] :
                b \in BlockOn(chain, ts, <<CbA>>)}
    IN  IF family = "headers"
           THEN wrong_height \cup wrong_prev \cup wrong_target
                \cup wrong_merkle \cup wrong_hash \cup no_work
           ELSE {}

OfferedBlocks(family, chain) ==
    GoodBlocks(family, chain) \cup TamperedBlocks(family, chain)

\* First blocks a peer may put at index 0 of a candidate in place of the
\* node's genesis: one at a height other than 0 with a hash that is not the
\* header's, one mined at height 0 on a harder target.
ForeignFirstBlocks(family) ==
    IF family = "headers"
       THEN {[NewBlock(1, 0, ZeroHash, MIN_TARGET, <<CbA>>)
                 EXCEPT !.hash = ZeroHash]}
            \cup mine(NewBlock(0, 0, ZeroHash,
                        [i \in 1..TARGET_BYTES |-> IF i = 1 THEN 15 ELSE 255],
                        <<CbA>>))
       ELSE {}

RECURSIVE Extensions(_, _, _)
Extensions(family, chain, n) ==
    {chain} \cup
    (IF n = 0 THEN {}
     ELSE {Append(chain, b) : b \in TamperedBlocks(family, chain)}
          \cup UNION {Extensions(family, Append(chain, b), n - 1) :
                         b \in GoodBlocks(family, chain)})

\* Candidate chains a peer may hand to maybe_reorg: the empty chain, and
\* chains that extend a prefix of the node's chain or a foreign first block.
Candidates(family, chain) ==
    {<<>>}
    \cup UNION {Extensions(family, SubSeq(chain, 1, f), MaxLen - f) :
                   f \in 1..Len(chain)}
    \cup UNION {Extensions(family, <<g>>, MaxLen - 1) :
                   g \in ForeignFirstBlocks(family)}

(* ------------------------------ persistence ---------------------------- *)

\* serde_json::to_string_pretty and serde_json::from_str.
to_json(value) == <<"json", value>>
from_json(text) == text[2]

\* A data file that does not exist or is blank.
NoFile == <<>>

(* -------------------------------- state -------------------------------- *)

\* What the last call was and what it returned; for maybe_reorg also the
\* verdict of validate_chain and how the candidate's work compares.
Call(op, ok, orphaned, valid, work) ==
    [op |-> op, ok |-> ok, orphaned |-> orphaned, valid |-> valid,
     work |-> work]

\* How the candidate's cumulative work compares with the current chain's.
CompareWork(candidate, current) ==
    IF cumulative_work(candidate) < cumulative_work(current) THEN "less"
    ELSE IF cumulative_work(candidate) = cumulative_work(current) THEN "equal"
    ELSE "more"

\* No call is in progress: the last result has gone back to its caller.
Idle == Call("idle", TRUE, <<>>, FALSE, "none")

\* Threads are not looked at: the callers of the chain and of the pool act
\* one call at a time.
NoThreads == <<>>

\* No peer is looked at.
NoNet == <<>>

\* Transaction-shaped placeholder of a call that takes no transaction.
NoTx == [inputs |-> <<>>, outputs |-> <<>>]

MpCall(op, ok, tx) == [op |-> op, ok |-> ok, tx |-> tx]

\* Mempool::new(): nothing pooled, nothing reserved, no call made yet.
\* No policy has been built.
NoPolicy == <<>>

\* No API handler has answered.
NoApi == <<>>

\* No P2PNetwork was built.
NoTcp == <<>>

NodeNew ==
    /\ entries = <<>>
    /\ spent_outpoints = {}
    /\ mp_call = MpCall("none", TRUE, NoTx)
    /\ threads = NoThreads
    /\ policy = NoPolicy
    /\ mempool = <<>>
    /\ api = NoApi
    /\ tcp = NoTcp
    /\ net = NoNet

\* Blockchain::new(), with no data directory yet.
Init ==
    /\ pc = "new"
    /\ blocks = <<>>
    /\ utxos = EmptyUtxos
    /\ blocks_file = NoFile
    /\ utxos_file = NoFile
    /\ call = Idle
    /\ offer \in {"headers", "transactions", "gifts"}
    /\ NodeNew

\* save_all: both files are rewritten from memory.
save_all(new_blocks, new_utxos) ==
    /\ blocks_file' = to_json(new_blocks)
    /\ utxos_file' = to_json(new_utxos)

\* A genesis at height 1: the variant against which C25 is tested.
GenesisBlock_at_height_one ==
    mine(NewBlock(1, 0, ZeroHash, calculate_next_target(<<>>), <<revelation_tx>>))

GenesisBlock ==
    mine(NewBlock(0, 0, ZeroHash, calculate_next_target(<<>>), <<revelation_tx>>))

initialize ==
    /\ pc = "new"
    /\ call = Idle
    /\ LET loaded == IF blocks_file # NoFile THEN from_json(blocks_file) ELSE blocks
       IN  \E genesis \in GenesisBlock :
             LET chain == IF Len(loaded) = 0 THEN <<genesis>> ELSE loaded
             IN  /\ blocks' = chain
                 /\ utxos' = rebuild_utxos(chain)
                 /\ save_all(chain, rebuild_utxos(chain))
    /\ pc' = "running"
    /\ call' = Call("initialize", TRUE, <<>>, FALSE, "none")
    /\ UNCHANGED <<offer, node_vars>>

\* The process stops and starts again: memory is lost, the files stay.
restart ==
    /\ pc \in {"running", "panicked"}
    /\ pc' = "new"
    /\ blocks' = <<>>
    /\ utxos' = EmptyUtxos
    /\ call' = Idle
    /\ UNCHANGED <<blocks_file, utxos_file, offer, node_vars>>

validate_and_add_block_accepts(chain, u, block, now) ==
    /\ header_rules(chain, block, now)
    /\ coinbase_rules(block)
    /\ transaction_rules(u, block)

\* A block arrives (from a peer or from the node's own miner) while the
\* wall clock reads `now`.
validate_and_add_block ==
    /\ pc = "running"
    /\ call = Idle
    /\ Len(blocks) < MaxLen
    /\ UNCHANGED <<offer, node_vars>>
    /\ \E block \in OfferedBlocks(offer, blocks), now \in 0..MaxNow :
          \/ \* a build with overflow checks panics in sum()
             /\ header_rules(blocks, block, now)
             /\ reward_sum_overflows(block)
             /\ pc' = "panicked"
             /\ call' = Call("validate_and_add_block", FALSE, <<>>, FALSE, "none")
             /\ UNCHANGED <<blocks, utxos, blocks_file, utxos_file>>
          \/ /\ pc' = "running"
             /\ IF validate_and_add_block_accepts(blocks, utxos, block, now)
                   THEN /\ blocks' = Append(blocks, block)
                        /\ utxos' = rebuild_utxos(Append(blocks, block))
                        /\ save_all(Append(blocks, block),
                                    rebuild_utxos(Append(blocks, block)))
                        /\ call' = Call("validate_and_add_block", TRUE, <<>>,
                                        FALSE, "none")
                   ELSE /\ call' = Call("validate_and_add_block", FALSE, <<>>,
                                        FALSE, "none")
                        /\ UNCHANGED <<blocks, utxos, blocks_file, utxos_file>>

\* A peer hands over a whole candidate chain.
maybe_reorg ==
    /\ pc = "running"
    /\ call = Idle
    /\ UNCHANGED <<offer, node_vars>>
    /\ \E candidate \in Candidates(offer, blocks) :
          LET valid == validate_chain(candidate)
              work == CompareWork(candidate, blocks)
          IN  IF reorg_accepts(candidate, blocks)
              THEN LET fork_height == find_fork_height(blocks, candidate)
                       orphaned == disconnect_to_height(blocks, fork_height)[2]
                   IN  /\ blocks' = candidate
                       /\ utxos' = rebuild_utxos(candidate)
                       /\ save_all(candidate, rebuild_utxos(candidate))
                       /\ call' = Call("maybe_reorg", TRUE, orphaned, valid, work)
              ELSE /\ call' = Call("maybe_reorg", FALSE, <<>>, valid, work)
                   /\ UNCHANGED <<blocks, utxos, blocks_file, utxos_file>>
    /\ pc' = pc

\* The call returns: its result goes to the caller, who may call again.
return ==
    /\ call # Idle
    /\ call' = Idle
    /\ UNCHANGED <<pc, blocks, utxos, blocks_file, utxos_file, offer, node_vars>>

Next ==
    initialize \/ restart \/ validate_and_add_block \/ maybe_reorg \/ return

Spec == Init /\ [][Next]_vars

(* ======================= properties of the chain ======================= *)

Txs(i) == blocks[i].transactions

\* Positions <<i, t, n>> of the inputs of the chain's transactions.
InputPositions ==
    {<<i, t, n>> \in (1..Len(blocks)) \X (1..3) \X (1..2) :
        /\ t <= Len(Txs(i))
        /\ n <= Len(Txs(i)[t].inputs)}

InputKey(p) ==
    OutKey(Txs(p[1])[p[2]].inputs[p[3]].txid, Txs(p[1])[p[2]].inputs[p[3]].index)

\* The UTXO set as the replay of the chain sees it right before
\* transaction t of block i.
UtxosBefore(i, t) ==
    ApplyTxs(rebuild_utxos(SubSeq(blocks, 1, i - 1)),
             SubSeq(Txs(i), 1, t - 1), 1, blocks[i].header.height)

\* C1: the accepted chain has heights 0, 1, 2, ... from index 0, and each
\* block after the first names its predecessor's hash and height + 1.
C1_Linkage ==
    \A i \in 1..Len(blocks) :
        /\ blocks[i].header.height = i - 1
        /\ i > 1 => /\ blocks[i].header.prev_hash = blocks[i - 1].hash
                    /\ blocks[i].header.height = blocks[i - 1].header.height + 1

\* C2: every block of the chain, index 0 included, carries the hash of its
\* own header and that hash meets the header's target.
C2_HashCommitment ==
    \A i \in 1..Len(blocks) :
        /\ blocks[i].hash = hash_header(blocks[i].header)
        /\ valid_pow(blocks[i].hash, blocks[i].header.target)

\* C3: every input in block i spends an outpoint of the UTXO set computed
\* through block i-1, and no outpoint is spent by two inputs of the chain.
C3_InputsExistAndSpentOnce ==
    /\ \A p \in InputPositions :
          InputKey(p) \in DOMAIN rebuild_utxos(SubSeq(blocks, 1, p[1] - 1))
    /\ \A p, q \in InputPositions : p # q => InputKey(p) # InputKey(q)

\* The outputs the chain's transactions create, each with its outpoint key.
ChainOutputs ==
    {<<OutKey(txid(Txs(i)[t]), o - 1), Txs(i)[t].outputs[o].value>> :
        <<i, t, o>> \in
            {<<i, t, o>> \in (1..Len(blocks)) \X (1..3) \X (1..2) :
                t <= Len(Txs(i)) /\ o <= Len(Txs(i)[t].outputs)}}

\* The value of the output an outpoint names (a txid fixes its outputs);
\* an outpoint that names no output of the chain carries no value.
NamedValue(key) ==
    IF \E c \in ChainOutputs : c[1] = key
       THEN (CHOOSE c \in ChainOutputs : c[1] = key)[2]
       ELSE 0

\* The true (unsaturated) sum of the values of the outputs the inputs name.
RECURSIVE TrueInputSum(_)
TrueInputSum(inputs) ==
    IF Len(inputs) = 0 THEN 0
    ELSE NamedValue(OutKey(inputs[1].txid, inputs[1].index))
         + TrueInputSum(Tail(inputs))

\* C4: every transaction with inputs spends at least as much as it creates.
C4_Conservation ==
    \A i \in 1..Len(blocks) : \A t \in 1..Len(Txs(i)) :
        Len(Txs(i)[t].inputs) # 0 =>
            TrueInputSum(Txs(i)[t].inputs) >= TrueOutputSum(Txs(i)[t].outputs)

RECURSIVE Fees(_, _)
Fees(i, t) ==
    IF t > Len(Txs(i)) THEN 0
    ELSE (IF Len(Txs(i)[t].inputs) = 0 THEN 0
          ELSE TrueInputSum(Txs(i)[t].inputs) - TrueOutputSum(Txs(i)[t].outputs))
         + Fees(i, t + 1)

\* C5: the coinbase of the block at height H pays out at most
\* block_reward(H) plus the fees of the block's other transactions.
C5_CoinbaseCap ==
    \A i \in 1..Len(blocks) :
        (Len(Txs(i)) # 0 /\ Len(Txs(i)[1].inputs) = 0) =>
            TrueOutputSum(Txs(i)[1].outputs)
                <= block_reward(blocks[i].header.height) + Fees(i, 2)

\* C6: no input in a block at height H spends a coinbase output created at
\* a height H_c with H - H_c < COINBASE_MATURITY.
C6_Maturity ==
    \A p \in InputPositions :
        LET u == UtxosBefore(p[1], p[2])
        IN  (InputKey(p) \in DOMAIN u /\ u[InputKey(p)].is_coinbase) =>
               ~ (blocks[p[1]].header.height - u[InputKey(p)].height
                     < COINBASE_MATURITY)

(* ------------------------- C7: UTXO determinism ------------------------ *)

\* Positions <<i, t, o>> of the outputs of the chain's transactions.
OutputPositions ==
    {<<i, t, o>> \in (1..Len(blocks)) \X (1..3) \X (1..2) :
        /\ t <= Len(Txs(i))
        /\ o <= Len(Txs(i)[t].outputs)}

OutputKey(c) == OutKey(txid(Txs(c[1])[c[2]]), c[3] - 1)

\* Transaction p comes after transaction c in the order of the chain.
TxAfter(p, c) == p[1] > c[1] \/ (p[1] = c[1] /\ p[2] > c[2])

\* The outputs a replay from genesis leaves unspent: the last creation of
\* each outpoint, unless an input of a later transaction names it.
LiveOutputs ==
    {c \in OutputPositions :
        /\ ~ \E d \in OutputPositions : OutputKey(d) = OutputKey(c) /\ TxAfter(d, c)
        /\ ~ \E p \in InputPositions : InputKey(p) = OutputKey(c) /\ TxAfter(p, c)}

ReplayEntry(c) ==
    [value |-> Txs(c[1])[c[2]].outputs[c[3]].value,
     pubkey_hash |-> Txs(c[1])[c[2]].outputs[c[3]].pubkey_hash,
     height |-> blocks[c[1]].header.height,
     is_coinbase |-> c[2] = 1 /\ Len(Txs(c[1])[c[2]].inputs) = 0]

ReplayedUtxos ==
    [k \in {OutputKey(c) : c \in LiveOutputs} |->
        ReplayEntry(CHOOSE c \in LiveOutputs : OutputKey(c) = k)]

\* C7: the node's UTXO set is the replay of its chain from genesis: the
\* spent outpoints removed, each output inserted with its block's height
\* and is_coinbase true only for an input-less first transaction.
C7_UtxoIsReplay == utxos = ReplayedUtxos

\* A reorg installed a chain in which an output was spent, and both a
\* coinbase output and a non-coinbase output are live.
C7_Witness ==
    /\ call.op = "maybe_reorg" /\ call.ok
    /\ \E p \in InputPositions : InputKey(p) \notin DOMAIN utxos
    /\ \E k \in DOMAIN utxos : utxos[k].is_coinbase
    /\ \E k \in DOMAIN utxos : ~ utxos[k].is_coinbase

(* ------------------------------ C8-C10: reorg -------------------------- *)

\* Work of a chain as the fork-choice rule states it: each block adds the
\* size of the hash space divided by target + 1, a zero target adds zero.
RECURSIVE ChainWork(_)
ChainWork(chain) ==
    IF Len(chain) = 0 THEN 0
    ELSE (IF from_bytes_be(Head(chain).header.target) = 0 THEN 0
          ELSE Space \div (from_bytes_be(Head(chain).header.target) + 1))
         + ChainWork(Tail(chain))

\* C8: a maybe_reorg that succeeds leaves a chain of strictly greater
\* cumulative work than the chain it replaced.
C8_ReorgRaisesWork ==
    [][(call'.op = "maybe_reorg" /\ call'.ok)
          => ChainWork(blocks') > ChainWork(blocks)]_vars

\* A reorg succeeded over a chain of two or more blocks.
C8_Witness ==
    call.op = "maybe_reorg" /\ call.ok /\ Len(call.orphaned) >= 2

\* C9: a maybe_reorg whose candidate is invalid or has no more work than
\* the current chain (equal work included) fails, and a failed maybe_reorg
\* leaves the chain, the UTXO set and both files as they were.
C9_FailedReorgChangesNothing ==
    [][call'.op = "maybe_reorg"
          => /\ (~ call'.valid \/ call'.work \in {"less", "equal"}) => ~ call'.ok
             /\ ~ call'.ok => UNCHANGED <<blocks, utxos, blocks_file, utxos_file>>]_vars

\* A valid candidate of exactly the current chain's work, differing from
\* it, was refused.
C9_Witness ==
    /\ call.op = "maybe_reorg" /\ ~ call.ok
    /\ call.valid /\ call.work = "equal"
    /\ Len(blocks) >= 2

\* Number of leading positions at which the two chains hold the same hash.
RECURSIVE SharedPrefix(_, _)
SharedPrefix(old, new) ==
    IF Len(old) = 0 \/ Len(new) = 0 \/ Head(old).hash # Head(new).hash THEN 0
    ELSE 1 + SharedPrefix(Tail(old), Tail(new))

\* The old chain's blocks above the fork height, newest first.
BlocksAboveFork(old, new) ==
    [i \in 1..(Len(old) - SharedPrefix(old, new)) |-> old[Len(old) - i + 1]]

\* C10: a successful maybe_reorg returns exactly the old chain's blocks
\* above the fork height, newest first; blocks the old chain shares with
\* the candidate are not among them.
C10_OrphansAboveFork ==
    [][(call'.op = "maybe_reorg" /\ call'.ok)
          => call'.orphaned = BlocksAboveFork(blocks, blocks')]_vars

(* ============================== mempool ================================ *)
(* src/src/node/mempool.rs.  The pool is the pair of `entries` and        *)
(* `spent_outpoints`; an operation on it is a function of that pair.      *)

\* 100_000 bytes in the source; here just above a transaction of two
\* inputs and one output.
MAX_TX_SIZE == 340

Pool(e, s) == [entries |-> e, spent_outpoints |-> s]

\* Transaction::serialized_size.
serialized_size(tx) == Len(tx.inputs) * 148 + Len(tx.outputs) * 34 + 10

\* `as i64` of a u64, and i64 arithmetic that wraps.
I64_MIN == -(2 ^ (U64_BITS - 1))
I64_MAX == 2 ^ (U64_BITS - 1) - 1
as_i64(v) == IF v > I64_MAX THEN v - 2 ^ U64_BITS ELSE v
wrapping_i64(x) == ((x - I64_MIN) % (2 ^ U64_BITS)) + I64_MIN
InI64(x) == I64_MIN <= x /\ x <= I64_MAX

\* input_sum of calculate_fee after the first n inputs, as the wrapping
\* build computes it.
RECURSIVE FeeInputSum(_, _, _)
FeeInputSum(tx, u, n) ==
    IF n = 0 THEN 0
    ELSE wrapping_i64(FeeInputSum(tx, u, n - 1)
            + as_i64(u[OutKey(tx.inputs[n].txid, tx.inputs[n].index)].value))

RECURSIVE FeeOutputSum(_, _)
FeeOutputSum(tx, n) ==
    IF n = 0 THEN 0
    ELSE wrapping_i64(FeeOutputSum(tx, n - 1) + as_i64(tx.outputs[n].value))

\* calculate_fee returns None when an input is not in the UTXO set.
fee_is_some(tx, u) ==
    \A n \in 1..Len(tx.inputs) :
        OutKey(tx.inputs[n].txid, tx.inputs[n].index) \in DOMAIN u

calculate_fee(tx, u) ==
    wrapping_i64(FeeInputSum(tx, u, Len(tx.inputs))
                 - FeeOutputSum(tx, Len(tx.outputs)))

\* An addition or the subtraction of calculate_fee leaves the i64 range:
\* a build with overflow checks panics there.
fee_overflows(tx, u) ==
    \/ \E n \in 1..Len(tx.inputs) :
          ~ InI64(FeeInputSum(tx, u, n - 1)
                  + as_i64(u[OutKey(tx.inputs[n].txid, tx.inputs[n].index)].value))
    \/ \E n \in 1..Len(tx.outputs) :
          ~ InI64(FeeOutputSum(tx, n - 1) + as_i64(tx.outputs[n].value))
    \/ ~ InI64(FeeInputSum(tx, u, Len(tx.inputs))
               - FeeOutputSum(tx, Len(tx.outputs)))

InputOutpoints(tx) ==
    {<<tx.inputs[n].txid, tx.inputs[n].index>> : n \in 1..Len(tx.inputs)}

\* The checks without the loop over spent_outpoints: the variant against
\* which C12 is tested.
reaches_fee_ignoring_reserved(m, tx, u, chain_height) ==
    /\ Len(tx.inputs) # 0
    /\ ~ (serialized_size(tx) > MAX_TX_SIZE)
    /\ validate_transaction(tx, u, chain_height)
    /\ fee_is_some(tx, u)

\* The checks of add_transaction that come before calculate_fee.
reaches_fee(m, tx, u, chain_height) ==
    /\ Len(tx.inputs) # 0
    /\ ~ (serialized_size(tx) > MAX_TX_SIZE)
    /\ validate_transaction(tx, u, chain_height)
    /\ InputOutpoints(tx) \cap m.spent_outpoints = {}
    /\ fee_is_some(tx, u)

\* add_transaction returns true.
admits(m, tx, u, chain_height) ==
    /\ reaches_fee(m, tx, u, chain_height)
    /\ ~ (calculate_fee(tx, u) <= 0)

\* The pool after add_transaction(tx, utxos, chain_height) at time t.
add_transaction_pool(m, tx, u, chain_height, t) ==
    IF admits(m, tx, u, chain_height)
       THEN Pool(Append(m.entries,
                        [tx |-> tx, fee |-> calculate_fee(tx, u),
                         size |-> serialized_size(tx), timestamp |-> t]),
                 m.spent_outpoints \cup InputOutpoints(tx))
       ELSE m

\* add_transaction panics in calculate_fee (overflow checks on).
add_transaction_panics(m, tx, u, chain_height) ==
    reaches_fee(m, tx, u, chain_height) /\ fee_overflows(tx, u)

rebuild_spent_outpoints(e) ==
    UNION {InputOutpoints(e[i].tx) : i \in 1..Len(e)}

RECURSIVE Retain(_, _)
Retain(e, confirmed) ==
    IF Len(e) = 0 THEN <<>>
    ELSE IF \E i \in 1..Len(confirmed) : txid(confirmed[i]) = txid(Head(e).tx)
         THEN Retain(Tail(e), confirmed)
         ELSE <<Head(e)>> \o Retain(Tail(e), confirmed)

\* remove_confirmed without rebuild_spent_outpoints: the variant against
\* which C11 is tested.
remove_confirmed_keeps_reserved(m, confirmed) ==
    Pool(Retain(m.entries, confirmed), m.spent_outpoints)

remove_confirmed_pool(m, confirmed) ==
    Pool(Retain(m.entries, confirmed),
         rebuild_spent_outpoints(Retain(m.entries, confirmed)))

\* The transactions resurrect_from_orphans offers, in its order: each
\* block's transactions after the first.
RECURSIVE OrphanTxs(_)
OrphanTxs(orphaned) ==
    IF Len(orphaned) = 0 THEN <<>>
    ELSE Tail(Head(orphaned).transactions) \o OrphanTxs(Tail(orphaned))

RECURSIVE AddAll(_, _, _, _, _)
AddAll(m, txs, u, chain_height, t) ==
    IF Len(txs) = 0 THEN m
    ELSE AddAll(add_transaction_pool(m, Head(txs), u, chain_height, t),
                Tail(txs), u, chain_height, t)

resurrect_from_orphans_pool(m, orphaned, u, chain_height, t) ==
    AddAll(m, OrphanTxs(orphaned), u, chain_height, t)

\* Some add_transaction of the loop panics.
RECURSIVE AddAllPanics(_, _, _, _, _)
AddAllPanics(m, txs, u, chain_height, t) ==
    /\ Len(txs) # 0
    /\ \/ add_transaction_panics(m, Head(txs), u, chain_height)
       \/ AddAllPanics(add_transaction_pool(m, Head(txs), u, chain_height, t),
                       Tail(txs), u, chain_height, t)

\* The pool as the panicking add_transaction of the loop finds it.
RECURSIVE AddAllUntilPanic(_, _, _, _, _)
AddAllUntilPanic(m, txs, u, chain_height, t) ==
    IF Len(txs) = 0 \/ add_transaction_panics(m, Head(txs), u, chain_height)
       THEN m
       ELSE AddAllUntilPanic(
               add_transaction_pool(m, Head(txs), u, chain_height, t),
               Tail(txs), u, chain_height, t)

(* ---------------------- what is offered to the pool -------------------- *)

\* Coinbases of the chains the pool is run against: one coin to key 1 with
\* a second output of nothing to key 2, and one coin to key 2.
CbM == [inputs |-> <<>>, outputs |-> <<Out(1, 1), Out(0, 2)>>]
CbB == [inputs |-> <<>>, outputs |-> <<Out(1, 2)>>]

\* Transactions that pay a fee of one coin.
PayA == [inputs |-> <<In(txid(CbM), 0, 1, 1)>>, outputs |-> <<Out(0, 2)>>]
PayA2 == [inputs |-> <<In(txid(CbM), 0, 1, 1)>>, outputs |-> <<Out(0, 1)>>]
PayB == [inputs |-> <<In(txid(CbB), 0, 2, 2)>>, outputs |-> <<Out(0, 1)>>]
PayAZ ==
    [inputs |-> <<In(txid(CbM), 0, 1, 1), In(txid(CbM), 1, 2, 2)>>,
     outputs |-> <<Out(0, 1)>>]
\* Two inputs whose values add up past i64::MAX.
PayAB ==
    [inputs |-> <<In(txid(CbM), 0, 1, 1), In(txid(CbB), 0, 2, 2)>>,
     outputs |-> <<Out(0, 1)>>]
\* Transactions that break one admission rule each.
NoFee == [inputs |-> <<In(txid(CbM), 0, 1, 1)>>, outputs |-> <<Out(1, 2)>>]
OverPay == [inputs |-> <<In(txid(CbM), 0, 1, 1)>>, outputs |-> <<Out(2, 2)>>]
TwiceA ==
    [inputs |-> <<In(txid(CbM), 0, 1, 1), In(txid(CbM), 0, 1, 1)>>,
     outputs |-> <<Out(0, 2)>>]
Large ==
    [inputs |-> <<In(txid(CbM), 0, 1, 1), In(txid(CbM), 1, 2, 2)>>,
     outputs |-> <<Out(0, 1), Out(0, 2)>>]
BadSig == [inputs |-> <<In(txid(CbM), 0, 1, 2)>>, outputs |-> <<Out(0, 2)>>]
Unknown == [inputs |-> <<In(txid(CbM), 2, 1, 1)>>, outputs |-> <<Out(0, 2)>>]

PoolTxs ==
    {PayA, PayA2, PayB, PayAZ, PayAB, NoFee, OverPay, TwiceA, Large, BadSig,
     Unknown, CbM}

\* Chains that validate_and_add_block builds from genesis out of blocks
\* with the given transaction lists.
RECURSIVE ChainsOf(_, _)
ChainsOf(chain, txlists) ==
    IF Len(txlists) = 0 THEN {chain}
    ELSE UNION {ChainsOf(Append(chain, b), Tail(txlists)) :
                  b \in {c \in BlockOn(chain, median_time_past(chain) + 1,
                                       Head(txlists)) :
                            validate_and_add_block_accepts(
                                chain, rebuild_utxos(chain), c, MaxNow)}}

PoolChains ==
    UNION {ChainsOf(<<g>>, txlists) :
              g \in GenesisBlock, txlists \in {<<>>, <<<<CbM>>>>, <<<<CbM>>, <<CbB>>>>}}

\* Transaction lists of confirmed blocks, and orphaned blocks.
ConfirmedLists == {<<CbM>>, <<CbM, PayA>>, <<CbB, PayB, PayA2>>}

OrphanBlock(txs) == NewBlock(1, 1, ZeroHash, MAX_TARGET, txs)

OrphanLists ==
    {<<OrphanBlock(<<CbM, PayA>>)>>,
     <<OrphanBlock(<<CbB, PayB, PayA2>>), OrphanBlock(<<CbM, PayA>>)>>,
     <<OrphanBlock(<<CbM, PayAB, PayB>>)>>,
     <<OrphanBlock(<<PayA, PayAZ>>)>>}

(* ------------------------- the pool's operations ----------------------- *)

\* A running node with an empty pool, on one of the chains above.
InitMempool ==
    /\ pc = "running"
    /\ blocks \in PoolChains
    /\ utxos = rebuild_utxos(blocks)
    /\ blocks_file = to_json(blocks)
    /\ utxos_file = to_json(utxos)
    /\ call = Idle
    /\ offer = "transactions"
    /\ NodeNew

chain_vars == <<blocks, utxos, blocks_file, utxos_file, call, offer>>

ThePool == Pool(entries, spent_outpoints)

add_transaction ==
    /\ pc = "running"
    /\ UNCHANGED <<chain_vars, threads, net, policy, mempool, api, tcp>>
    /\ \E tx \in PoolTxs, t \in 0..MaxNow :
          \/ /\ add_transaction_panics(ThePool, tx, utxos, Len(blocks))
             /\ pc' = "panicked"
             /\ mp_call' = MpCall("add_transaction", FALSE, tx)
             /\ UNCHANGED <<entries, spent_outpoints>>
          \/ /\ pc' = "running"
             /\ entries' =
                  add_transaction_pool(ThePool, tx, utxos, Len(blocks), t).entries
             /\ spent_outpoints' =
                  add_transaction_pool(ThePool, tx, utxos, Len(blocks), t)
                      .spent_outpoints
             /\ mp_call' = MpCall("add_transaction",
                                  admits(ThePool, tx, utxos, Len(blocks)), tx)

remove_confirmed ==
    /\ pc = "running"
    /\ UNCHANGED <<pc, chain_vars, threads, net, policy, mempool, api, tcp>>
    /\ \E confirmed \in ConfirmedLists :
          /\ entries' = remove_confirmed_pool(ThePool, confirmed).entries
          /\ spent_outpoints' =
               remove_confirmed_pool(ThePool, confirmed).spent_outpoints
    /\ mp_call' = MpCall("remove_confirmed", TRUE, NoTx)

resurrect_from_orphans ==
    /\ pc = "running"
    /\ UNCHANGED <<chain_vars, threads, net, policy, mempool, api, tcp>>
    /\ \E orphaned \in OrphanLists, t \in 0..MaxNow :
          \/ /\ AddAllPanics(ThePool, OrphanTxs(orphaned), utxos, Len(blocks), t)
             /\ pc' = "panicked"
             /\ entries' =
                  AddAllUntilPanic(ThePool, OrphanTxs(orphaned), utxos,
                                   Len(blocks), t).entries
             /\ spent_outpoints' =
                  AddAllUntilPanic(ThePool, OrphanTxs(orphaned), utxos,
                                   Len(blocks), t).spent_outpoints
          \/ /\ pc' = "running"
             /\ entries' =
                  resurrect_from_orphans_pool(ThePool, orphaned, utxos,
                                              Len(blocks), t).entries
             /\ spent_outpoints' =
                  resurrect_from_orphans_pool(ThePool, orphaned, utxos,
                                              Len(blocks), t).spent_outpoints
    /\ mp_call' = MpCall("resurrect_from_orphans", TRUE, NoTx)

NextMempool == add_transaction \/ remove_confirmed \/ resurrect_from_orphans

SpecMempool == InitMempool /\ [][NextMempool]_vars

(* ====================== properties of the mempool ====================== *)

\* C11: the reserved-outpoint set is the union of the input outpoints of
\* the pooled transactions, and no two entries spend the same outpoint.
C11_ReservedIsUnionOfInputs ==
    /\ spent_outpoints =
         {<<entries[i].tx.inputs[n].txid, entries[i].tx.inputs[n].index>> :
            <<i, n>> \in {<<i, n>> \in (1..Len(entries)) \X (1..2) :
                             n <= Len(entries[i].tx.inputs)}}
    /\ \A i, j \in 1..Len(entries) :
          i # j => InputOutpoints(entries[i].tx)
                     \cap InputOutpoints(entries[j].tx) = {}

\* A confirmed transaction has been removed; another is still pooled and
\* its outpoint is still reserved.
C11_Witness ==
    /\ mp_call.op = "remove_confirmed"
    /\ Len(entries) = 1
    /\ spent_outpoints # {}

\* C12: an add_transaction of a transaction that is already pooled returns
\* false and changes neither the entries nor the reserved outpoints, so
\* a transaction is pooled at most once.
C12_IdempotentAdmission ==
    [][(mp_call'.op = "add_transaction"
          /\ \E i \in 1..Len(entries) : entries[i].tx = mp_call'.tx)
         => /\ ~ mp_call'.ok
            /\ UNCHANGED <<entries, spent_outpoints>>
            /\ Cardinality({i \in 1..Len(entries') :
                              entries'[i].tx = mp_call'.tx}) = 1]_vars

\* The pooled transaction was submitted again and refused.
C12_Witness ==
    /\ mp_call.op = "add_transaction"
    /\ ~ mp_call.ok
    /\ \E i \in 1..Len(entries) : entries[i].tx = mp_call.tx

(* ================== properties of block acceptance ===================== *)

\* The block keeps every rule of validate_and_add_block on top of `chain`
\* with UTXO set u, the reward rule taken over the true sum of the
\* coinbase outputs.
KeepsRules(chain, u, b) ==
    /\ \E now \in 0..MaxNow : header_rules(chain, b, now)
    /\ Len(b.transactions) > 0 =>
          /\ Len(b.transactions[1].inputs) = 0
          /\ TrueOutputSum(b.transactions[1].outputs)
               <= block_reward(b.header.height)
    /\ transaction_rules(u, b)

\* C13: validate_and_add_block never faults, appends only a block that
\* keeps every consensus rule, and when it returns false leaves the chain,
\* the UTXO set and both files as they were.
C13_RejectsWithoutFault ==
    [][call'.op = "validate_and_add_block"
          => /\ pc' # "panicked"
             /\ call'.ok => KeepsRules(blocks, utxos, blocks'[Len(blocks')])
             /\ ~ call'.ok =>
                   UNCHANGED <<blocks, utxos, blocks_file, utxos_file>>]_vars

(* --------------------------- threads and locks ------------------------- *)

\* The mining thread of main() and a thread that runs on_receive.
Threads == {"main", "peer"}

\* Scaled from 2_000 transactions and 999_000 bytes (src/src/policy.rs): a
\* coinbase and two one-input transactions fit, a third does not.
MAX_BLOCK_TXS == 3
MAX_BLOCK_TX_BYTES == 430

\* A block-shaped placeholder of a thread that has no block in hand.
NoBlock == NewBlock(0, 0, ZeroHash, MAX_TARGET, <<>>)

\* A thread: where it is, the mutexes it holds (first taken first), the block
\* and the transactions in its hands, the answer of its last
\* validate_and_add_block, and the chain its candidate was built on.
Thread(at, held, block, txs, ok, base) ==
    [at |-> at, held |-> held, block |-> block, txs |-> txs, ok |-> ok,
     base |-> base]

Fresh(at) == Thread(at, <<>>, NoBlock, <<>>, FALSE, <<>>)

Holds(t, lock) == \E i \in 1..Len(threads[t].held) : threads[t].held[i] = lock

\* Mutex::lock returns once no thread holds the mutex.
lock_ignoring_holders(mutex) == TRUE

lock(mutex) == \A t \in Threads : ~ Holds(t, mutex)

\* The guard of `mutex` goes out of scope.
Drop(held, mutex) == SelectSeq(held, LAMBDA l : l # mutex)

\* The positions of main() inside its mining loop.
MinerPositions ==
    {"sorted_for_mining", "lock_for_mining", "mine_block", "mine",
     "lock_for_submit", "validate", "commit", "submitted", "balance"}

\* The node is past the wallet commands: its network threads are running.
NodeMode == threads["main"].at \in MinerPositions

\* The other ends of the steps below leave everything else alone.
Step(t, next) == threads' = [threads EXCEPT ![t] = next]

\* validate_transaction of src/src/validation.rs, the one mine_block calls.
structural_validate_transaction(tx, u) ==
    IF Len(tx.inputs) = 0 THEN TRUE
    ELSE /\ \A i \in 1..Len(tx.inputs) :
              LET input == tx.inputs[i]
                  key == OutKey(input.txid, input.index)
              IN  /\ key \in DOMAIN u
                  /\ pubkey_hash(input.pubkey) = u[key].pubkey_hash
                  /\ ParsesAsPublicKey(input.pubkey)
                  /\ verify_signature(sighash(tx), input.signature, input.pubkey)
         /\ InputSum(tx.inputs, u) >= OutputSum(tx.outputs)

\* The selection loop of mine_block.
RECURSIVE select(_, _, _, _)
select(selected, total_bytes, mempool_txs, u) ==
    IF Len(mempool_txs) = 0 THEN selected
    ELSE LET tx == Head(mempool_txs)
             size == serialized_size(tx)
         IN  IF Len(selected) >= MAX_BLOCK_TXS THEN selected
             ELSE IF total_bytes + size > MAX_BLOCK_TX_BYTES THEN selected
             ELSE IF structural_validate_transaction(tx, u)
                     THEN select(Append(selected, tx), total_bytes + size,
                                 Tail(mempool_txs), u)
                     ELSE select(selected, total_bytes, Tail(mempool_txs), u)

\* The block mine_block assembles, before the nonce search.
mine_block(chain, u, mempool_txs, miner_key, now) ==
    LET prev_block == chain[Len(chain)]
        height == prev_block.header.height + 1
        coinbase == [inputs |-> <<>>,
                     outputs |-> <<Out(block_reward(height), miner_key)>>]
        selected == select(<<coinbase>>, serialized_size(coinbase),
                           mempool_txs, u)
    IN  NewBlock(height, now, prev_block.hash, calculate_next_target(chain),
                 selected)

\* Mempool::sorted_for_mining: the pool's transactions by falling fee rate,
\* equal rates in the pool's order.
\* `fee * size as i64` of the comparator, in a build that wraps.
cross_product(fee, size) == wrapping_i64(fee * size)

\* The same product passes i64: a build with overflow checks panics there.
cross_product_overflows(fee, size) == ~ InI64(fee * size)

RECURSIVE insert_sorted(_, _)
insert_sorted(sorted, e) ==
    IF Len(sorted) = 0 THEN <<e>>
    ELSE IF cross_product(e.fee, Head(sorted).size)
              > cross_product(Head(sorted).fee, e.size)
            THEN <<e>> \o sorted
            ELSE <<Head(sorted)>> \o insert_sorted(Tail(sorted), e)

RECURSIVE sort_by_fee_rate(_)
sort_by_fee_rate(e) ==
    IF Len(e) = 0 THEN <<>>
    ELSE insert_sorted(sort_by_fee_rate(SubSeq(e, 1, Len(e) - 1)), e[Len(e)])

sorted_for_mining(e) ==
    LET sorted == sort_by_fee_rate(e)
    IN  [i \in 1..Len(sorted) |-> sorted[i].tx]

(* ------------------------- the steps of the threads -------------------- *)

\* Chains the process may find in its data directory.
ThreadChains == {chain \in PoolChains : Len(chain) > 1 /\ Len(chain) < MaxLen}

\* Transactions the wallet may build for `send`.
SendTxs == {PayA, NoFee, OverPay}

\* Blocks a peer may send on top of the node's chain.
PeerBlocks(chain) == GoodBlocks("headers", chain)

\* Chains a peer may hold that part from the node's chain at its last block.
RECURSIVE Grow(_, _)
Grow(chain, n) ==
    {chain} \cup
    (IF n = 0 THEN {}
     ELSE UNION {Grow(Append(chain, b), n - 1) : b \in PeerBlocks(chain)})

PeerChains(chain) ==
    Grow(SubSeq(chain, 1, Len(chain) - 1), MaxLen - Len(chain) + 1)

\* main() has set up the chain and the pool, and looks at its arguments.
InitThreads ==
    /\ pc = "running"
    /\ blocks \in ThreadChains
    /\ utxos = rebuild_utxos(blocks)
    /\ blocks_file = to_json(blocks)
    /\ utxos_file = to_json(utxos)
    /\ call = Idle
    /\ offer = "headers"
    /\ entries = <<>>
    /\ spent_outpoints = {}
    /\ mp_call = MpCall("none", TRUE, NoTx)
    /\ threads = [t \in Threads |-> Fresh(IF t = "main" THEN "start" ELSE "idle")]
    /\ policy = NoPolicy
    /\ mempool = <<>>
    /\ api = NoApi
    /\ tcp = NoTcp
    /\ net = NoNet

store_vars == <<pc, blocks, utxos, blocks_file, utxos_file, call, offer>>
pool_vars == <<entries, spent_outpoints, mp_call, net, policy, mempool, api, tcp>>

Main == threads["main"]

\* main.rs 73-77: a wallet command is handled and the process ends; without
\* one the network threads start and main goes on to mine.
main_start ==
    /\ Main.at = "start"
    /\ \E next \in {"cli_send", "sorted_for_mining"} :
          Step("main", [Main EXCEPT !.at = next])
    /\ UNCHANGED <<store_vars, pool_vars>>

\* cli.rs 57: let chain_guard = chain.lock().unwrap()
cli_lock_chain ==
    /\ Main.at = "cli_send"
    /\ lock("chain")
    /\ Step("main", [Main EXCEPT !.at = "cli_create",
                                 !.held = Append(@, "chain")])
    /\ UNCHANGED <<store_vars, pool_vars>>

\* cli.rs 58-77: the transaction is built and validated, the guard dropped.
cli_create ==
    /\ Main.at = "cli_create"
    /\ \/ \* Wallet error
          Step("main", [Main EXCEPT !.at = "exited",
                                    !.held = Drop(@, "chain")])
       \/ \E tx \in SendTxs :
             IF validate_transaction(tx, utxos, Len(blocks))
             THEN Step("main", [Main EXCEPT !.at = "cli_lock_mempool",
                                            !.held = Drop(@, "chain"),
                                            !.txs = <<tx>>])
             ELSE Step("main", [Main EXCEPT !.at = "exited",
                                            !.held = Drop(@, "chain")])
    /\ UNCHANGED <<store_vars, pool_vars>>

\* cli.rs 79: let mut mempool_guard = mempool.lock().unwrap()
cli_lock_mempool ==
    /\ Main.at = "cli_lock_mempool"
    /\ lock("mempool")
    /\ Step("main", [Main EXCEPT !.at = "cli_lock_chain_again",
                                 !.held = Append(@, "mempool")])
    /\ UNCHANGED <<store_vars, pool_vars>>

\* cli.rs 80: let chain_guard = chain.lock().unwrap()
cli_lock_chain_again ==
    /\ Main.at = "cli_lock_chain_again"
    /\ lock("chain")
    /\ Step("main", [Main EXCEPT !.at = "cli_add",
                                 !.held = Append(@, "chain")])
    /\ UNCHANGED <<store_vars, pool_vars>>

\* cli.rs 82-87: add_transaction under both guards, which then go.
cli_add ==
    /\ Main.at = "cli_add"
    /\ \E t \in 0..MaxNow :
          LET tx == Main.txs[1]
              after == add_transaction_pool(ThePool, tx, utxos, Len(blocks), t)
          IN  /\ ~ add_transaction_panics(ThePool, tx, utxos, Len(blocks))
              /\ entries' = after.entries
              /\ spent_outpoints' = after.spent_outpoints
              /\ mp_call' = MpCall("add_transaction",
                                   admits(ThePool, tx, utxos, Len(blocks)), tx)
    /\ Step("main", [Main EXCEPT !.at = "exited", !.held = <<>>])
    /\ UNCHANGED <<store_vars, net, policy, mempool, api, tcp>>

\* main.rs 170: the pool is locked for the length of the statement.
miner_sorted_for_mining ==
    /\ Main.at = "sorted_for_mining"
    /\ Len(blocks) < MaxLen
    /\ lock("mempool")
    /\ Step("main", [Main EXCEPT !.at = "lock_for_mining",
                                 !.txs = sorted_for_mining(entries)])
    /\ UNCHANGED <<store_vars, pool_vars>>

\* main.rs 173: let c = chain.lock().unwrap()
miner_lock_for_mining ==
    /\ Main.at = "lock_for_mining"
    /\ lock("chain")
    /\ Step("main", [Main EXCEPT !.at = "mine_block",
                                 !.held = Append(@, "chain")])
    /\ UNCHANGED <<store_vars, pool_vars>>

\* main.rs 174-181 with miner.rs 20-75: the candidate is assembled on the
\* tip, under the guard c.
miner_mine_block ==
    /\ Main.at = "mine_block"
    /\ \E now \in 0..MaxNow :
          Step("main", [Main EXCEPT !.at = "mine",
                                    !.block = mine_block(blocks, utxos, Main.txs,
                                                         1, now),
                                    !.base = blocks])
    /\ UNCHANGED <<store_vars, pool_vars>>

\* miner.rs 76 with pow.rs 26-37: one turn of the nonce search; c is still
\* in scope and goes only when mine_block has returned (main.rs 182).
miner_mine ==
    /\ Main.at = "mine"
    /\ LET hash == hash_header(Main.block.header)
       IN  IF valid_pow(hash, Main.block.header.target)
              THEN Step("main", [Main EXCEPT !.at = "lock_for_submit",
                                             !.block.hash = hash,
                                             !.held = Drop(@, "chain")])
              ELSE /\ Main.block.header.nonce < MaxNonce
                   /\ Step("main", [Main EXCEPT !.block.header.nonce = @ + 1])
    /\ UNCHANGED <<store_vars, pool_vars>>

\* main.rs 185: let mut c = chain.lock().unwrap()
miner_lock_for_submit ==
    /\ Main.at = "lock_for_submit"
    /\ lock("chain")
    /\ Step("main", [Main EXCEPT !.at = "validate",
                                 !.held = Append(@, "chain")])
    /\ UNCHANGED <<store_vars, pool_vars>>

\* p2p.rs 69-70, 96-104 of main.rs: a Block message reaches a network thread.
on_receive_block(t) ==
    /\ t # "main"
    /\ NodeMode
    /\ threads[t].at = "idle"
    /\ Len(blocks) < MaxLen
    /\ \E block \in PeerBlocks(blocks) :
          Step(t, [threads[t] EXCEPT !.at = "lock_for_block", !.block = block])
    /\ UNCHANGED <<store_vars, pool_vars>>

\* p2p.rs 71: self.chain.lock().unwrap()
peer_lock_for_block(t) ==
    /\ t # "main"
    /\ threads[t].at = "lock_for_block"
    /\ lock("chain")
    /\ Step(t, [threads[t] EXCEPT !.at = "validate",
                                  !.held = Append(@, "chain")])
    /\ UNCHANGED <<store_vars, pool_vars>>

\* chain.rs 161-243: validate_and_add_block decides, with the chain and the
\* clock it finds.
thread_validate(t) ==
    /\ threads[t].at = "validate"
    /\ \E now \in 0..MaxNow :
          Step(t, [threads[t] EXCEPT
                      !.at = "commit",
                      !.ok = validate_and_add_block_accepts(
                                 blocks, utxos, threads[t].block, now)])
    /\ UNCHANGED <<store_vars, pool_vars>>

\* chain.rs 245-249: push, rebuild_utxos and save_all if the block passed;
\* then the call returns and the caller's guard goes.
thread_commit(t) ==
    /\ threads[t].at = "commit"
    /\ IF threads[t].ok
          THEN /\ blocks' = Append(blocks, threads[t].block)
               /\ utxos' = rebuild_utxos(Append(blocks, threads[t].block))
               /\ save_all(Append(blocks, threads[t].block),
                           rebuild_utxos(Append(blocks, threads[t].block)))
          ELSE UNCHANGED <<blocks, utxos, blocks_file, utxos_file>>
    /\ Step(t, [threads[t] EXCEPT
                   !.at = IF t = "main" THEN "submitted" ELSE "idle",
                   !.held = Drop(@, "chain")])
    /\ UNCHANGED <<pc, call, offer, pool_vars>>

\* main.rs 189-195: an accepted candidate is broadcast and its transactions
\* leave the pool; a refused one is dropped and the loop starts over.
miner_submitted ==
    /\ Main.at = "submitted"
    /\ IF Main.ok
          THEN /\ lock("mempool")
               /\ entries' = remove_confirmed_pool(
                                ThePool, Main.block.transactions).entries
               /\ spent_outpoints' = remove_confirmed_pool(
                                ThePool, Main.block.transactions).spent_outpoints
               /\ mp_call' = MpCall("remove_confirmed", TRUE, NoTx)
               /\ Step("main", [Main EXCEPT !.at = "balance"])
          ELSE /\ Step("main", Fresh("sorted_for_mining"))
               /\ UNCHANGED <<entries, spent_outpoints, mp_call>>
    /\ UNCHANGED <<store_vars, net, policy, mempool, api, tcp>>

\* main.rs 197-209: the balance is read under the chain guard.
miner_balance ==
    /\ Main.at = "balance"
    /\ lock("chain")
    /\ Step("main", Fresh("sorted_for_mining"))
    /\ UNCHANGED <<store_vars, pool_vars>>

\* A network thread hands a peer's chain to maybe_reorg under the chain guard.
peer_maybe_reorg(t) ==
    /\ t # "main"
    /\ NodeMode
    /\ threads[t].at = "idle"
    /\ lock("chain")
    /\ \E candidate \in PeerChains(blocks) :
          /\ reorg_accepts(candidate, blocks)
          /\ blocks' = candidate
          /\ utxos' = rebuild_utxos(candidate)
          /\ save_all(candidate, rebuild_utxos(candidate))
    /\ UNCHANGED <<pc, call, offer, pool_vars, threads>>

NextThreads ==
    \/ main_start
    \/ cli_lock_chain
    \/ cli_create
    \/ cli_lock_mempool
    \/ cli_lock_chain_again
    \/ cli_add
    \/ miner_sorted_for_mining
    \/ miner_lock_for_mining
    \/ miner_mine_block
    \/ miner_mine
    \/ miner_lock_for_submit
    \/ miner_submitted
    \/ miner_balance
    \/ \E t \in Threads :
          \/ on_receive_block(t)
          \/ peer_lock_for_block(t)
          \/ thread_validate(t)
          \/ thread_commit(t)
          \/ peer_maybe_reorg(t)

SpecThreads == InitThreads /\ [][NextThreads]_vars

(* ----------------------- properties of the threads --------------------- *)

\* C14: the miner does not hold the chain lock while it searches for a
\* nonce, so a Block message that arrives meanwhile can take the lock.
C14_SearchesWithoutChainLock ==
    Main.at = "mine" => ~ Holds("main", "chain")

\* The submission of the miner's candidate returns.
MinerSubmissionReturns == Main.at = "commit" /\ Main'.at = "submitted"

\* C15: the miner's candidate is appended only if the block it was built on
\* is still the tip when it is submitted; if the chain has changed since the
\* candidate was built (an append or a reorg, each of which raises the
\* chain's work), the submission is refused and leaves the chain as it was.
C15_StaleCandidateDiscarded ==
    [][MinerSubmissionReturns
          => /\ blocks' # blocks =>
                   /\ blocks[Len(blocks)] = Main.base[Len(Main.base)]
                   /\ blocks' = Append(blocks, Main.block)
             /\ blocks # Main.base =>
                   /\ ~ Main.ok
                   /\ UNCHANGED <<blocks, utxos, blocks_file, utxos_file>>]_vars

\* The miner's candidate, good on the chain it was built on, has come back
\* refused because the chain had moved on.
C15_Witness ==
    /\ Main.at = "submitted"
    /\ ~ Main.ok
    /\ blocks # Main.base
    /\ \E now \in 0..MaxNow :
          validate_and_add_block_accepts(Main.base, rebuild_utxos(Main.base),
                                         Main.block, now)

\* C30: the miner's candidate has a timestamp strictly above the
\* median-time-past of the chain it was built on, so that the timestamp rule
\* cannot refuse it while the tip is the same.
C30_CandidateAboveMedian ==
    Main.at \in {"mine", "lock_for_submit", "validate", "commit", "submitted"}
       => Main.block.header.timestamp > median_time_past(Main.base)

\* C16: a thread that holds both locks took the chain lock first, and no
\* thread asks for the chain lock while it holds the mempool lock.
C16_ChainBeforeMempool ==
    \A t \in Threads :
       /\ Holds(t, "chain") /\ Holds(t, "mempool")
             => threads[t].held[1] = "chain"
       /\ threads[t].at = "cli_lock_chain_again" => ~ Holds(t, "mempool")

\* No two blocks of the chain name the same parent.
NoSharedParent(chain) ==
    \A i, j \in 1..Len(chain) :
       i # j => chain[i].header.prev_hash # chain[j].header.prev_hash

\* C17: each validate_and_add_block takes effect at one point, where its
\* answer is the one a call on the chain and UTXO set of that moment gives
\* and its effect is that call's; so blocks delivered concurrently leave what
\* one call after the other would, and no two blocks with the same parent
\* are both appended.
C17_Linearizable ==
    [][\A t \in Threads :
          threads[t].at = "commit" /\ threads'[t].at # "commit"
             => /\ IF threads[t].ok
                      THEN /\ \E now \in 0..MaxNow :
                                 validate_and_add_block_accepts(
                                     blocks, utxos, threads[t].block, now)
                           /\ blocks' = Append(blocks, threads[t].block)
                           /\ utxos' = rebuild_utxos(blocks')
                      ELSE /\ \E now \in 0..MaxNow :
                                 ~ validate_and_add_block_accepts(
                                       blocks, utxos, threads[t].block, now)
                           /\ UNCHANGED <<blocks, utxos>>
                /\ NoSharedParent(blocks')]_vars

\* The peer's block is being appended while the miner waits for the lock
\* with a candidate on the same parent.
C17_Witness ==
    /\ threads["peer"].at = "commit"
    /\ threads["peer"].ok
    /\ Main.at = "lock_for_submit"
    /\ Main.block.header.prev_hash = threads["peer"].block.header.prev_hash

(* ------------------------------ the network ---------------------------- *)

\* crate::node::message::PROTOCOL_VERSION.
PROTOCOL_VERSION == 1

\* NetworkMessage, one shape for all its kinds; "Garbled" is a packet that
\* bincode::deserialize refuses.
Message(kind, version, height, block, tx) ==
    [kind |-> kind, version |-> version, height |-> height, block |-> block,
     tx |-> tx]

Hello(version, height) == Message("Hello", version, height, NoBlock, NoTx)
SyncRequest(from_height) == Message("SyncRequest", 0, from_height, NoBlock, NoTx)
BlockMessage(block) == Message("Block", 0, 0, block, NoTx)
TransactionMessage(tx) == Message("Transaction", 0, 0, NoBlock, tx)
Plain(kind) == Message(kind, 0, 0, NoBlock, NoTx)

\* What the network is in: the peer's chain, the positions of it the peer has
\* sent as Block messages, the message last handled, its sender, and the
\* messages the handler gave to the transport, each with its addressee.
Net(chain, delivered, msg, from, sent) ==
    [chain |-> chain, delivered |-> delivered, msg |-> msg, from |-> from,
     sent |-> sent]

Addrs == {"peer_a", "peer_b"}

Sent(addr, msg) == [to |-> addr, msg |-> msg]

\* The Hello arm with `>=` for `>`: the variant against which C20 is tested.
hello_reply_at_equal_height(addr, version, height, local_height) ==
    IF version # PROTOCOL_VERSION THEN <<>>
    ELSE IF height >= local_height
            THEN <<Sent(addr, SyncRequest(local_height))>>
            ELSE <<>>

\* The Hello arm of on_receive: what it sends.
hello_reply(addr, version, height, local_height) ==
    IF version # PROTOCOL_VERSION THEN <<>>
    ELSE IF height > local_height
            THEN <<Sent(addr, SyncRequest(local_height))>>
            ELSE <<>>

\* The SyncRequest arm: c.blocks.iter().skip(from_height), one Block each.
sync_reply(addr, chain, from_height) ==
    [i \in 1..Max(0, Len(chain) - from_height) |->
        Sent(addr, BlockMessage(chain[from_height + i]))]

\* Chains the peer may hold: forks from the node's chain at its last block,
\* and continuations of it.
PeerHoldings(chain) ==
    PeerChains(chain) \cup Grow(chain, MaxLen - Len(chain))

\* Transactions a peer may announce.
AnnouncedTxs == {PayA, NoFee, BadSig, CbM}

\* A running node with an empty pool, and a peer with a chain of its own.
InitP2P ==
    /\ pc = "running"
    /\ blocks \in ThreadChains
    /\ utxos = rebuild_utxos(blocks)
    /\ blocks_file = to_json(blocks)
    /\ utxos_file = to_json(utxos)
    /\ call = Idle
    /\ offer = "headers"
    /\ entries = <<>>
    /\ spent_outpoints = {}
    /\ mp_call = MpCall("none", TRUE, NoTx)
    /\ threads = NoThreads
    /\ policy = NoPolicy
    /\ mempool = <<>>
    /\ api = NoApi
    /\ tcp = NoTcp
    /\ \E chain \in PeerHoldings(blocks) :
          net = Net(chain, {}, Plain("none"), "peer_a", <<>>)

\* The handler has dealt with `msg` from `addr` and sent `sent`.
Handled(msg, addr, sent) ==
    net' = [net EXCEPT !.msg = msg, !.from = addr, !.sent = sent]

\* A handler that answers what it cannot decode: the variant against which
\* C22 is tested.
on_receive_other_with_reply ==
    /\ \E addr \in Addrs, kind \in {"Garbled", "Pong"} :
          Handled(Plain(kind), addr, <<Sent(addr, Plain("Pong"))>>)
    /\ UNCHANGED <<store_vars, entries, spent_outpoints, mp_call, threads, policy, mempool, api, tcp>>

\* p2p.rs 36-42 and 85: a packet that does not decode, a Pong or any other
\* message without an arm of its own.
on_receive_other ==
    /\ \E addr \in Addrs, kind \in {"Garbled", "Pong"} :
          Handled(Plain(kind), addr, <<>>)
    /\ UNCHANGED <<store_vars, entries, spent_outpoints, mp_call, threads, policy, mempool, api, tcp>>

\* p2p.rs 46-59
on_receive_hello ==
    /\ \E addr \in Addrs, version \in {PROTOCOL_VERSION, PROTOCOL_VERSION + 1},
          height \in (Len(blocks) - 1)..(Len(blocks) + 1) :
          Handled(Hello(version, height), addr,
                  hello_reply(addr, version, height, Len(blocks)))
    /\ UNCHANGED <<store_vars, entries, spent_outpoints, mp_call, threads, policy, mempool, api, tcp>>

\* p2p.rs 61-67
on_receive_sync_request ==
    /\ \E addr \in Addrs, from_height \in 0..MaxLen :
          Handled(SyncRequest(from_height), addr,
                  sync_reply(addr, blocks, from_height))
    /\ UNCHANGED <<store_vars, entries, spent_outpoints, mp_call, threads, policy, mempool, api, tcp>>

\* p2p.rs 69-73: the peer sends a block of its chain; the handler calls
\* validate_and_add_block and drops the answer.
on_receive_block_message ==
    /\ \E addr \in Addrs, i \in 1..Len(net.chain), now \in 0..MaxNow :
          LET block == net.chain[i]
          IN  /\ net' = [net EXCEPT !.msg = BlockMessage(block), !.from = addr,
                                    !.sent = <<>>,
                                    !.delivered = @ \cup {i}]
              /\ IF validate_and_add_block_accepts(blocks, utxos, block, now)
                    THEN /\ blocks' = Append(blocks, block)
                         /\ utxos' = rebuild_utxos(Append(blocks, block))
                         /\ save_all(Append(blocks, block),
                                     rebuild_utxos(Append(blocks, block)))
                    ELSE UNCHANGED <<blocks, utxos, blocks_file, utxos_file>>
    /\ UNCHANGED <<pc, call, offer, entries, spent_outpoints, mp_call, threads, policy, mempool, api, tcp>>

\* p2p.rs 75-79: validate_transaction is called and its answer dropped.
on_receive_transaction ==
    /\ \E addr \in Addrs, tx \in AnnouncedTxs :
          Handled(TransactionMessage(tx), addr, <<>>)
    /\ UNCHANGED <<store_vars, entries, spent_outpoints, mp_call, threads, policy, mempool, api, tcp>>

\* p2p.rs 81-83
on_receive_ping ==
    /\ \E addr \in Addrs :
          Handled(Plain("Ping"), addr, <<Sent(addr, Plain("Pong"))>>)
    /\ UNCHANGED <<store_vars, entries, spent_outpoints, mp_call, threads, policy, mempool, api, tcp>>

NextP2P ==
    \/ on_receive_other
    \/ on_receive_hello
    \/ on_receive_sync_request
    \/ on_receive_block_message
    \/ on_receive_transaction
    \/ on_receive_ping

\* Messages keep arriving and each is handled.
SpecP2P == InitP2P /\ [][NextP2P]_vars /\ WF_vars(NextP2P)

(* ----------------------- properties of the network --------------------- *)

\* The two chains have a first part in common and part ways after it.
Forks(b, c) ==
    \E f \in 1..(Min(Len(b), Len(c)) - 1) :
       /\ SubSeq(b, 1, f) = SubSeq(c, 1, f)
       /\ b[f + 1] # c[f + 1]

\* Every block of the chain after the first passes validate_and_add_block on
\* the blocks before it.
ValidFromFirst(chain) ==
    \A i \in 2..Len(chain) :
       \E now \in 0..MaxNow :
          validate_and_add_block_accepts(
              SubSeq(chain, 1, i - 1), rebuild_utxos(SubSeq(chain, 1, i - 1)),
              chain[i], now)

\* The peer has sent every block of a valid chain that forks from the
\* node's and carries more work.
HeavierForkDelivered ==
    /\ net.delivered = 1..Len(net.chain)
    /\ Forks(net.chain, blocks)
    /\ ValidFromFirst(net.chain)
    /\ validate_chain(net.chain)
    /\ cumulative_work(net.chain) > cumulative_work(blocks)

\* C18: a node that has been sent, as Block messages, every block of a valid
\* fork with strictly more cumulative work comes to hold that fork.
C18_ConvergesToHeavierChain == HeavierForkDelivered ~> blocks = net.chain

\* C19: a Transaction message is put to mempool admission: a transaction
\* that passes every admission rule is in the pool once the message is
\* handled, one that fails a rule leaves the pool as it was.
C19_TransactionMessageAdmits ==
    [][net'.msg.kind = "Transaction" /\ net' # net
          => IF admits(ThePool, net'.msg.tx, utxos, Len(blocks))
                THEN \E i \in 1..Len(entries') : entries'[i].tx = net'.msg.tx
                ELSE UNCHANGED <<entries, spent_outpoints>>]_vars

\* C22: bytes that decode to no message are dropped: nothing is sent, and
\* the chain, the UTXO set, the mempool and the files stay as they were.
C22_GarbledIsDropped ==
    [][net'.msg.kind = "Garbled" /\ net' # net
          => /\ net'.sent = <<>>
             /\ UNCHANGED <<blocks, utxos, blocks_file, utxos_file, entries,
                            spent_outpoints>>]_vars

\* A packet that did not decode has been handled after a block of the peer.
C22_Witness ==
    /\ net.msg.kind = "Garbled"
    /\ net.sent = <<>>
    /\ net.delivered # {}

\* C20: a Hello of another protocol version sends nothing and changes
\* nothing; one of this version sends exactly one SyncRequest from the local
\* height, to the sender, if the peer's height is above the local height,
\* and no message otherwise.
C20_HelloHandling ==
    [][net'.msg.kind = "Hello" /\ net' # net
          => IF net'.msg.version # PROTOCOL_VERSION
                THEN /\ net'.sent = <<>>
                     /\ UNCHANGED <<store_vars, entries, spent_outpoints>>
                ELSE IF net'.msg.height > Len(blocks)
                        THEN net'.sent =
                               <<Sent(net'.from, SyncRequest(Len(blocks)))>>
                        ELSE net'.sent = <<>>]_vars

\* A Hello of this version from a peer that is ahead has been answered.
C20_Witness ==
    /\ net.msg.kind = "Hello"
    /\ net.msg.version = PROTOCOL_VERSION
    /\ net.msg.height > Len(blocks)
    /\ net.sent = <<Sent(net.from, SyncRequest(Len(blocks)))>>

(* ------------------ further properties of the accepted chain ----------- *)

\* C25: initialize on empty persisted state leaves a chain of exactly one
\* block: height 0, prev_hash of zero bytes, target MAX_TARGET, the
\* revelation transaction (no inputs) as its only transaction, the merkle
\* root of that list, and a hash that satisfies valid_pow against MAX_TARGET.
C25_GenesisOnEmptyState ==
    [][pc = "new" /\ pc' = "running" /\ blocks_file = NoFile
          => /\ Len(blocks') = 1
             /\ blocks'[1].header.height = 0
             /\ blocks'[1].header.prev_hash = ZeroHash
             /\ blocks'[1].header.target = MAX_TARGET
             /\ blocks'[1].transactions = <<revelation_tx>>
             /\ Len(blocks'[1].transactions[1].inputs) = 0
             /\ blocks'[1].header.merkle_root
                   = merkle_root(blocks'[1].transactions)
             /\ blocks'[1].hash = hash_header(blocks'[1].header)
             /\ valid_pow(blocks'[1].hash, MAX_TARGET)]_vars

\* initialize has just run on empty persisted state.
C25_Witness ==
    /\ call.op = "initialize"
    /\ Len(blocks) = 1
    /\ blocks[1] \in GenesisBlock
    /\ blocks_file = to_json(blocks)

\* C26: the target of every block of the chain, the first included, is the
\* expected target of the blocks before it, and lies between MIN_TARGET and
\* MAX_TARGET.
C26_TargetIsExpected ==
    \A i \in 1..Len(blocks) :
       /\ blocks[i].header.target
             = calculate_next_target(SubSeq(blocks, 1, i - 1))
       /\ from_bytes_be(blocks[i].header.target) >= from_bytes_be(MIN_TARGET)
       /\ from_bytes_be(blocks[i].header.target) <= from_bytes_be(MAX_TARGET)

\* C27: the timestamp of every block after the first is strictly above the
\* median of the timestamps of the last MTP_WINDOW blocks before it.
C27_TimestampAboveMedian ==
    \A i \in 2..Len(blocks) :
       blocks[i].header.timestamp
          > median_time_past(SubSeq(blocks, 1, i - 1))

\* C28: every block of the chain has at least one transaction, and its
\* first transaction has no inputs.
C28_CoinbaseFirst ==
    \A i \in 1..Len(blocks) :
       /\ Len(blocks[i].transactions) >= 1
       /\ Len(blocks[i].transactions[1].inputs) = 0

(* ------------------------- serving a SyncRequest ----------------------- *)

\* Chains the node may be holding when a SyncRequest comes in: chains it has
\* built block by block, and chains of up to two blocks that maybe_reorg has
\* put in the place of [genesis].
ServedChains ==
    PoolChains
    \cup {c \in UNION {Extensions("headers", <<g>>, 1) :
                          g \in ForeignFirstBlocks("headers")} :
            \A genesis \in GenesisBlock : reorg_accepts(c, <<genesis>>)}

InitSync ==
    /\ pc = "running"
    /\ blocks \in ServedChains
    /\ utxos = rebuild_utxos(blocks)
    /\ blocks_file = to_json(blocks)
    /\ utxos_file = to_json(utxos)
    /\ call = Idle
    /\ offer = "headers"
    /\ entries = <<>>
    /\ spent_outpoints = {}
    /\ mp_call = MpCall("none", TRUE, NoTx)
    /\ threads = NoThreads
    /\ policy = NoPolicy
    /\ mempool = <<>>
    /\ api = NoApi
    /\ tcp = NoTcp
    /\ net = Net(<<>>, {}, Plain("none"), "peer_a", <<>>)

NextSync == on_receive_sync_request \/ on_receive_ping \/ on_receive_other

SpecSync == InitSync /\ [][NextSync]_vars

\* The blocks of the chain at or above a height, in the chain's order.
BlocksFromHeight(chain, from_height) ==
    SelectSeq(chain, LAMBDA b : b.header.height >= from_height)

\* C21: a SyncRequest is answered with exactly the blocks of the local chain
\* whose height is at or above from_height, once each and in the chain's
\* order, all to the requesting peer; at or beyond the chain's length
\* nothing is sent.
C21_SyncServesFromHeight ==
    [][net'.msg.kind = "SyncRequest" /\ net' # net
          => LET served == BlocksFromHeight(blocks, net'.msg.height)
             IN  /\ net'.sent = [i \in 1..Len(served) |->
                                    Sent(net'.from, BlockMessage(served[i]))]
                 /\ net'.msg.height >= Len(blocks) => net'.sent = <<>>]_vars

(* ------------------------------ save_all step by step ------------------ *)

\* A file that a write has left unfinished.
Torn(text) == <<"torn", text>>

\* A running node between two calls, its files as its last save_all left
\* them; one thread makes the calls.
InitPersist ==
    /\ pc = "running"
    /\ blocks \in {chain \in PoolChains : Len(chain) < MaxLen}
    /\ utxos = rebuild_utxos(blocks)
    /\ blocks_file = to_json(blocks)
    /\ utxos_file = to_json(utxos)
    /\ call = Idle
    /\ offer = "transactions"
    /\ entries = <<>>
    /\ spent_outpoints = {}
    /\ mp_call = MpCall("none", TRUE, NoTx)
    /\ threads = [t \in {"main"} |-> Fresh("idle")]
    /\ policy = NoPolicy
    /\ mempool = <<>>
    /\ api = NoApi
    /\ tcp = NoTcp
    /\ net = NoNet

\* chain.rs 161-251: the checks, and for a block that passes them push and
\* rebuild_utxos; save_all comes next.
validate_and_push ==
    /\ pc = "running"
    /\ Main.at = "idle"
    /\ Len(blocks) < MaxLen
    /\ \E block \in GoodBlocks(offer, blocks), now \in 0..MaxNow :
          IF validate_and_add_block_accepts(blocks, utxos, block, now)
             THEN /\ blocks' = Append(blocks, block)
                  /\ utxos' = rebuild_utxos(Append(blocks, block))
                  /\ Step("main", [Main EXCEPT !.at = "create_blocks_file",
                                               !.block = block, !.ok = TRUE,
                                               !.base = blocks])
             ELSE /\ UNCHANGED <<blocks, utxos>>
                  /\ Step("main", [Main EXCEPT !.block = block, !.ok = FALSE,
                                               !.base = blocks])
    /\ UNCHANGED <<pc, blocks_file, utxos_file, call, offer, pool_vars>>

\* The unwrap() of a failed create_dir_all or fs::write: the call panics
\* where it stands.
save_panics == pc' = "panicked" /\ Step("main", [Main EXCEPT !.at = "failed"])

\* chain.rs 417-418: create_dir_all, then fs::write opens the blocks file,
\* which empties it.
save_create_blocks_file ==
    /\ pc = "running"
    /\ Main.at = "create_blocks_file"
    /\ \/ /\ blocks_file' = NoFile
          /\ Step("main", [Main EXCEPT !.at = "write_blocks_file"])
          /\ UNCHANGED pc
       \/ /\ save_panics
          /\ UNCHANGED blocks_file
    /\ UNCHANGED <<blocks, utxos, utxos_file, call, offer, pool_vars>>

\* chain.rs 418-422: the chain's JSON goes into the blocks file.
save_write_blocks_file ==
    /\ pc = "running"
    /\ Main.at = "write_blocks_file"
    /\ \/ /\ blocks_file' = to_json(blocks)
          /\ Step("main", [Main EXCEPT !.at = "create_utxos_file"])
          /\ UNCHANGED pc
       \/ /\ save_panics
          /\ blocks_file' \in {NoFile, Torn(to_json(blocks))}
    /\ UNCHANGED <<blocks, utxos, utxos_file, call, offer, pool_vars>>

\* chain.rs 423: fs::write opens the UTXO file, which empties it.
save_create_utxos_file ==
    /\ pc = "running"
    /\ Main.at = "create_utxos_file"
    /\ \/ /\ utxos_file' = NoFile
          /\ Step("main", [Main EXCEPT !.at = "write_utxos_file"])
          /\ UNCHANGED pc
       \/ /\ save_panics
          /\ UNCHANGED utxos_file
    /\ UNCHANGED <<blocks, utxos, blocks_file, call, offer, pool_vars>>

\* chain.rs 423-427 and 254: the UTXO set's JSON goes into its file, and
\* validate_and_add_block returns true.
save_write_utxos_file ==
    /\ pc = "running"
    /\ Main.at = "write_utxos_file"
    /\ \/ /\ utxos_file' = to_json(utxos)
          /\ Step("main", [Main EXCEPT !.at = "idle"])
          /\ UNCHANGED pc
       \/ /\ save_panics
          /\ utxos_file' \in {NoFile, Torn(to_json(utxos))}
    /\ UNCHANGED <<blocks, utxos, blocks_file, call, offer, pool_vars>>

\* The process is killed or the machine loses power: a write under way may
\* have put part of its bytes into the file.
crash ==
    /\ pc = "running"
    /\ pc' = "crashed"
    /\ blocks_file' \in
          {blocks_file} \cup (IF Main.at = "write_blocks_file"
                                 THEN {Torn(to_json(blocks))} ELSE {})
    /\ utxos_file' \in
          {utxos_file} \cup (IF Main.at = "write_utxos_file"
                                THEN {Torn(to_json(utxos))} ELSE {})
    /\ UNCHANGED <<blocks, utxos, call, offer, pool_vars, threads>>

NextPersist ==
    \/ validate_and_push
    \/ save_create_blocks_file
    \/ save_write_blocks_file
    \/ save_create_utxos_file
    \/ save_write_utxos_file
    \/ crash

SpecPersist == InitPersist /\ [][NextPersist]_vars

(* --------------------------- properties of save_all -------------------- *)

\* The two files as they were before the block Main has in hand, and as
\* they are to be after it.
FilesBefore ==
    <<to_json(Main.base), to_json(rebuild_utxos(Main.base))>>

FilesAfter ==
    <<to_json(Append(Main.base, Main.block)),
      to_json(rebuild_utxos(Append(Main.base, Main.block)))>>

\* C23: a crash while an accepted block is being persisted leaves the block
\* file and the UTXO file both as before the block or both as after it.
C23_CrashLeavesFilesTogether ==
    pc = "crashed" /\ Main.ok /\ Main.at # "idle"
       => <<blocks_file, utxos_file>> \in {FilesBefore, FilesAfter}

\* C24: when a write of the snapshot fails, the append is undone: the chain
\* and the UTXO set in memory are those of before the call.
C24_FailedSaveAbortsAppend ==
    Main.at = "failed"
       => /\ blocks = Main.base
          /\ utxos = rebuild_utxos(Main.base)

(* ------------------------------ the runtime policy --------------------- *)

\* An f32 in tenths of a degree; a NaN compares false with everything.
F32(nan, tenths) == [nan |-> nan, tenths |-> tenths]

NaN == F32(TRUE, 0)

F32Le(x, tenths) == ~x.nan /\ x.tenths <= tenths

F32Gt(x, tenths) == ~x.nan /\ x.tenths > tenths

RuntimeMode == {"Desktop", "Mobile", "Unknown"}

\* RuntimeMode::detect(): the compilation target decides.
detect == RuntimeMode

is_mobile(mode) == mode = "Mobile"

RuntimePolicy(mode, allow_inbound, allow_mining, max_cpu_percent, battery_safe_level, thermal_threshold, ram_first) ==
    [mode |-> mode, allow_inbound |-> allow_inbound,
     allow_mining |-> allow_mining, max_cpu_percent |-> max_cpu_percent,
     battery_safe_level |-> battery_safe_level,
     thermal_threshold |-> thermal_threshold, ram_first |-> ram_first]

\* Default::default(), on a build whose target detect() reads as `mode`.
default(mode) ==
    RuntimePolicy(mode, TRUE, TRUE, 100, 20, F32(FALSE, 400), FALSE)

desktop ==
    RuntimePolicy("Desktop", TRUE, TRUE, 100, 10, F32(FALSE, 700), FALSE)

mobile ==
    RuntimePolicy("Mobile", FALSE, TRUE, 70, 20, F32(FALSE, 400), TRUE)

allow_inbound_connections(self) ==
    ~is_mobile(self.mode) \/ self.allow_inbound

\* validate without its test for zero: the variant against which C29 is
\* tested.
validate_without_zero_test(self) ==
    IF self.max_cpu_percent > 100
       THEN "Err"
    ELSE IF self.battery_safe_level > 100
       THEN "Err"
    ELSE IF F32Le(self.thermal_threshold, 0)
            \/ F32Gt(self.thermal_threshold, 1000)
       THEN "Err"
    ELSE "Ok"

validate(self) ==
    IF self.max_cpu_percent = 0 \/ self.max_cpu_percent > 100
       THEN "Err"
    ELSE IF self.battery_safe_level > 100
       THEN "Err"
    ELSE IF F32Le(self.thermal_threshold, 0)
            \/ F32Gt(self.thermal_threshold, 1000)
       THEN "Err"
    ELSE "Ok"

\* The u8 values and the thresholds a caller assigns to the public fields.
Percents == {0, 1, 50, 70, 100, 101, 255}

Thresholds ==
    {NaN} \cup {F32(FALSE, tenths) : tenths \in {-1, 0, 1, 400, 1000, 1001}}

\* The policy in hand, the constructor it is still the value of ("assigned"
\* once a field was written), the last method called and what it returned.
Held(self, built, op, result) ==
    [self |-> self, built |-> built, op |-> op, result |-> result]

InitPolicy ==
    /\ pc = "new"
    /\ blocks = <<>>
    /\ utxos = EmptyUtxos
    /\ blocks_file = NoFile
    /\ utxos_file = NoFile
    /\ call = Idle
    /\ offer = "headers"
    /\ entries = <<>>
    /\ spent_outpoints = {}
    /\ mp_call = MpCall("none", TRUE, NoTx)
    /\ threads = NoThreads
    /\ net = NoNet
    /\ policy = NoPolicy
    /\ mempool = <<>>
    /\ api = NoApi
    /\ tcp = NoTcp

policy_frame == UNCHANGED <<store_vars, entries, spent_outpoints, mp_call,
                            threads, net, mempool, api, tcp>>

policy_default ==
    /\ \E mode \in detect : policy' = Held(default(mode), "default", "new", "none")
    /\ policy_frame

policy_desktop ==
    /\ policy' = Held(desktop, "desktop", "new", "none")
    /\ policy_frame

policy_mobile ==
    /\ policy' = Held(mobile, "mobile", "new", "none")
    /\ policy_frame

\* `policy.max_cpu_percent = 0;` and the like: the fields are public.
policy_assign ==
    /\ policy # NoPolicy
    /\ \E self \in
          {[policy.self EXCEPT !.max_cpu_percent = v] : v \in Percents}
          \cup {[policy.self EXCEPT !.battery_safe_level = v] : v \in Percents}
          \cup {[policy.self EXCEPT !.thermal_threshold = v] : v \in Thresholds}
          \cup {[policy.self EXCEPT !.allow_inbound = v] : v \in BOOLEAN}
          \cup {[policy.self EXCEPT !.mode = v] : v \in RuntimeMode} :
          policy' = Held(self, "assigned", "new", "none")
    /\ policy_frame

policy_validate ==
    /\ policy # NoPolicy
    /\ policy' = [policy EXCEPT !.op = "validate",
                                !.result = validate(policy.self)]
    /\ policy_frame

policy_allow_inbound_connections ==
    /\ policy # NoPolicy
    /\ policy' = [policy EXCEPT
                     !.op = "allow_inbound_connections",
                     !.result = IF allow_inbound_connections(policy.self)
                                   THEN "true" ELSE "false"]
    /\ policy_frame

NextPolicy ==
    \/ policy_default
    \/ policy_desktop
    \/ policy_mobile
    \/ policy_assign
    \/ policy_validate
    \/ policy_allow_inbound_connections

SpecPolicy == InitPolicy /\ [][NextPolicy]_vars

MinerTxs == {PayA, PayA2, PayB, Large, NoFee, BadSig, Unknown}

\* The sequences of at most n of them.
RECURSIVE TxSeqs(_)
TxSeqs(n) ==
    IF n = 0 THEN {<<>>}
    ELSE TxSeqs(n - 1) \cup
         {Append(txs, tx) : txs \in {q \in TxSeqs(n - 1) : Len(q) = n - 1},
                            tx \in MinerTxs}

\* A running node on a chain with a coinbase to spend; one thread calls
\* mine_block.
InitMiner ==
    /\ pc = "running"
    /\ blocks \in {chain \in PoolChains : Len(chain) > 1}
    /\ utxos = rebuild_utxos(blocks)
    /\ blocks_file = to_json(blocks)
    /\ utxos_file = to_json(utxos)
    /\ call = Idle
    /\ offer = "transactions"
    /\ entries = <<>>
    /\ spent_outpoints = {}
    /\ mp_call = MpCall("none", TRUE, NoTx)
    /\ threads = [t \in {"main"} |-> Fresh("idle")]
    /\ policy = NoPolicy
    /\ mempool = <<>>
    /\ api = NoApi
    /\ tcp = NoTcp
    /\ net = NoNet

\* miner::mine_block(prev, &utxos, txs, miner_pubkey_hash, &blocks).
call_mine_block ==
    /\ pc = "running"
    /\ Main.at = "idle"
    /\ \E mempool_txs \in TxSeqs(MAX_BLOCK_TXS), now \in 0..MaxNow :
          Step("main", [Main EXCEPT
                           !.at = "mined",
                           !.txs = mempool_txs,
                           !.base = blocks,
                           !.block = mine_block(blocks, utxos, mempool_txs, 1, now)])
    /\ UNCHANGED <<store_vars, pool_vars>>

NextMiner == call_mine_block

SpecMiner == InitMiner /\ [][NextMiner]_vars

\* sub is what is left of txs after some of its elements are taken out.
RECURSIVE IsSubsequence(_, _)
IsSubsequence(sub, txs) ==
    IF Len(sub) = 0 THEN TRUE
    ELSE IF Len(txs) = 0 THEN FALSE
    ELSE IF Head(sub) = Head(txs) THEN IsSubsequence(Tail(sub), Tail(txs))
    ELSE IsSubsequence(sub, Tail(txs))

\* total_bytes of a list of selected transactions.
RECURSIVE TotalBytes(_)
TotalBytes(txs) ==
    IF Len(txs) = 0 THEN 0
    ELSE serialized_size(Head(txs)) + TotalBytes(Tail(txs))

\* The UTXO set after the first n transactions of a candidate at `height`.
ProvisionalUtxos(u, selected, n, height) ==
    ApplyTxs(u, SubSeq(selected, 1, n), 1, height)

\* C31: the candidate of mine_block takes the transactions in the order
\* given, each one validates against the UTXO set with the ones taken
\* before it applied, there are at most MAX_BLOCK_TXS of them and their
\* sizes add up to at most MAX_BLOCK_TX_BYTES.
C31_CandidateSelection ==
    Main.at = "mined" =>
       LET selected == Main.block.transactions
           height == Main.block.header.height
       IN  /\ IsSubsequence(Tail(selected), Main.txs)
           /\ \A i \in 2..Len(selected) :
                 structural_validate_transaction(
                    selected[i],
                    ProvisionalUtxos(utxos, selected, i - 1, height))
           /\ Len(selected) <= MAX_BLOCK_TXS
           /\ TotalBytes(selected) <= MAX_BLOCK_TX_BYTES

(* --------------------------- sorted_for_mining alone ------------------- *)

\* Sizes of the entries below, scaled from 1..100_000 bytes so that, as
\* there, the largest fee times the largest size passes i64::MAX.
MaxEntrySize == 2

\* Entries that add_transaction may have pushed: a fee above zero, a size,
\* the time of admission.
SortEntries(tx) ==
    {[tx |-> tx, fee |-> fee, size |-> size, timestamp |-> t] :
        fee \in 1..I64_MAX, size \in 1..MaxEntrySize, t \in 0..MaxNow}

\* Pools of at most two entries that reserve different outpoints.
SortPools ==
    {<<>>}
    \cup {<<a>> : a \in SortEntries(PayA) \cup SortEntries(PayB)}
    \cup {<<a, b>> : a \in SortEntries(PayA), b \in SortEntries(PayB)}
    \cup {<<b, a>> : a \in SortEntries(PayA), b \in SortEntries(PayB)}

InitSort ==
    /\ pc = "running"
    /\ blocks \in {chain \in PoolChains : Len(chain) = MaxLen}
    /\ utxos = rebuild_utxos(blocks)
    /\ blocks_file = to_json(blocks)
    /\ utxos_file = to_json(utxos)
    /\ call = Idle
    /\ offer = "transactions"
    /\ entries \in SortPools
    /\ spent_outpoints = rebuild_spent_outpoints(entries)
    /\ mp_call = MpCall("none", TRUE, NoTx)
    /\ threads = [t \in {"main"} |-> Fresh("idle")]
    /\ policy = NoPolicy
    /\ mempool = <<>>
    /\ api = NoApi
    /\ tcp = NoTcp
    /\ net = NoNet

\* Some comparison of the sort multiplies past i64.
sort_overflows(e) ==
    \E i, j \in 1..Len(e) : i # j /\ cross_product_overflows(e[i].fee, e[j].size)

\* mempool.sorted_for_mining(): with overflow checks the multiplication
\* panics, without them it wraps.
call_sorted_for_mining ==
    /\ pc = "running"
    /\ Main.at = "idle"
    /\ \/ /\ Step("main", [Main EXCEPT !.at = "sorted",
                                       !.txs = sorted_for_mining(entries)])
          /\ UNCHANGED pc
       \/ /\ sort_overflows(entries)
          /\ pc' = "panicked"
          /\ Step("main", [Main EXCEPT !.at = "failed"])
    /\ UNCHANGED <<blocks, utxos, blocks_file, utxos_file, call, offer, pool_vars>>

NextSort == call_sorted_for_mining

SpecSort == InitSort /\ [][NextSort]_vars

\* The entry of the pool that holds tx.
EntryOf(tx) == CHOOSE e \in {entries[i] : i \in 1..Len(entries)} : e.tx = tx

\* C32: sorted_for_mining returns the transaction of every entry once, an
\* entry a coming before an entry b only if a.fee * b.size >= b.fee * a.size,
\* and the pool is as it was.
C32_SortedByFeeRate ==
    [][Main'.at = "sorted" /\ Main.at = "idle"
          => LET sorted == Main'.txs
             IN  /\ Len(sorted) = Len(entries)
                 /\ \A i \in 1..Len(entries) :
                       \E k \in 1..Len(sorted) : sorted[k] = entries[i].tx
                 /\ \A k, l \in 1..Len(sorted) :
                       k < l => EntryOf(sorted[k]).fee * EntryOf(sorted[l]).size
                                   >= EntryOf(sorted[l]).fee * EntryOf(sorted[k]).size
                 /\ entries' = entries
                 /\ spent_outpoints' = spent_outpoints]_vars

(* ------------------------ resurrection after a reorg ------------------- *)

\* Every transaction of the orphaned blocks that has inputs, in the order
\* of the blocks and, inside a block, of its list.
RECURSIVE NonCoinbaseTxs(_)
NonCoinbaseTxs(orphaned) ==
    IF Len(orphaned) = 0 THEN <<>>
    ELSE SelectSeq(Head(orphaned).transactions, LAMBDA tx : Len(tx.inputs) # 0)
         \o NonCoinbaseTxs(Tail(orphaned))

\* The pool once each of them has gone through add_transaction.
Readmitted(m, orphaned, u, chain_height, t) ==
    AddAll(m, NonCoinbaseTxs(orphaned), u, chain_height, t)

\* C33: resurrect_from_orphans returns, and leaves the pool that the
\* admission path gives when every transaction with inputs of the orphaned
\* blocks is offered to it in turn: those it admits are in, the others and
\* the coinbases are not.
C33_ResurrectReadmits ==
    [][mp_call'.op = "resurrect_from_orphans"
          => /\ pc' = "running"
             /\ \E orphaned \in OrphanLists, t \in 0..MaxNow :
                   /\ entries' =
                        Readmitted(ThePool, orphaned, utxos, Len(blocks), t).entries
                   /\ spent_outpoints' =
                        Readmitted(ThePool, orphaned, utxos, Len(blocks), t)
                           .spent_outpoints]_vars

(* ------------------------------ the money supply ----------------------- *)

\* The values of the entries of a UTXO set, added up.
RECURSIVE UtxoTotal(_, _)
UtxoTotal(u, keys) ==
    IF keys = {} THEN 0
    ELSE LET key == CHOOSE k \in keys : TRUE
         IN  u[key].value + UtxoTotal(u, keys \ {key})

\* The rewards of the heights of a chain, added up.
RECURSIVE RewardTotal(_)
RewardTotal(chain) ==
    IF Len(chain) = 0 THEN 0
    ELSE block_reward(Head(chain).header.height) + RewardTotal(Tail(chain))

\* C34: the UTXO set holds no more value than the blocks of the chain were
\* allowed to create.
C34_SupplyWithinRewards ==
    UtxoTotal(utxos, DOMAIN utxos) <= RewardTotal(blocks)

\* C35: no transaction of the chain creates an outpoint that is in the UTXO
\* set at its turn: every output is inserted under a key that is free, so
\* k coinbases to one key leave k entries.
C35_NoOutpointOverwritten ==
    \A c \in OutputPositions :
        OutputKey(c) \notin
            DOMAIN RemoveInputs(UtxosBefore(c[1], c[2]), Txs(c[1])[c[2]].inputs)

(* ------------------------- the API next to the miner ------------------- *)

\* Transactions Blockchain::mempool may hold at once.
MaxPending == 1

\* The outpoints of `u` locked to the hash `from`.
Owned(u, from) == {key \in DOMAIN u : u[key].pubkey_hash = from}

\* The loop of create_transaction over the UTXO map, whose order is the
\* HashMap's: each way it can go, as <<inputs, accumulated>>.  The inputs
\* carry no public key and no signature.
RECURSIVE Gather(_, _, _, _, _)
Gather(u, remaining, inputs, accumulated, amount) ==
    IF remaining = {} THEN {<<inputs, accumulated>>}
    ELSE UNION {
           LET more == Append(inputs, In(key[1], key[2], 0, 0))
               sum == (accumulated + u[key].value) % (U64_MAX + 1)
           IN  IF sum >= amount THEN {<<more, sum>>}
               ELSE Gather(u, remaining \ {key}, more, sum, amount) :
           key \in remaining}

\* Blockchain::create_transaction: the transactions it may return; none
\* stands for Err("Not enough balance").
create_transaction(u, from, to, amount) ==
    {[inputs |-> g[1],
      outputs |-> IF g[2] > amount
                     THEN <<Out(amount, to), Out(g[2] - amount, from)>>
                     ELSE <<Out(amount, to)>>] :
        g \in {h \in Gather(u, Owned(u, pubkey_hash(from)), <<>>, 0, amount) :
                  ~ (h[2] < amount)}}

Api(op, ok, tx, size) == [op |-> op, ok |-> ok, tx |-> tx, mempool |-> size]

\* Blocks a peer may send: a coinbase alone, and one with a signed spend of
\* the first coinbase of the chain.
ApiPeerBlocks(chain) ==
    UNION {BlockOn(chain, median_time_past(chain) + 1, txs) :
              txs \in {<<CbB>>, <<CbB, PayA>>}}

\* main() past its sync, the API and the network threads running.
InitApi ==
    /\ pc = "running"
    /\ blocks \in {chain \in PoolChains : Len(chain) = 2}
    /\ utxos = rebuild_utxos(blocks)
    /\ blocks_file = to_json(blocks)
    /\ utxos_file = to_json(utxos)
    /\ call = Idle
    /\ offer = "transactions"
    /\ entries = <<>>
    /\ spent_outpoints = {}
    /\ mp_call = MpCall("none", TRUE, NoTx)
    /\ threads = [t \in {"main"} |-> Fresh("sorted_for_mining")]
    /\ policy = NoPolicy
    /\ net = NoNet
    /\ mempool = <<>>
    /\ api = NoApi
    /\ tcp = NoTcp

api_frame == UNCHANGED <<entries, spent_outpoints, mp_call, net, policy, tcp>>

\* POST /transactions/new, under the chain guard from start to end.
new_transaction ==
    /\ pc = "running"
    /\ Len(mempool) < MaxPending
    /\ \E from \in 1..2, to \in 1..2, amount \in 0..INITIAL_REWARD :
          \/ /\ create_transaction(utxos, from, to, amount) = {}
             /\ api' = Api("new_transaction", FALSE, NoTx, 0)
             /\ UNCHANGED mempool
          \/ \E tx \in create_transaction(utxos, from, to, amount) :
                /\ mempool' = Append(mempool, tx)
                /\ api' = Api("new_transaction", TRUE, tx, 0)
    /\ UNCHANGED <<store_vars, threads>>
    /\ api_frame

\* GET /status.
status ==
    /\ pc = "running"
    /\ api' = Api("status", TRUE, NoTx, Len(mempool))
    /\ UNCHANGED <<store_vars, threads, mempool>>
    /\ api_frame

\* main.rs 170: the miner reads the Mempool.
loop_sorted_for_mining ==
    /\ pc = "running"
    /\ Main.at = "sorted_for_mining"
    /\ Len(blocks) < MaxLen
    /\ Step("main", [Main EXCEPT !.at = "mine_block",
                                 !.txs = sorted_for_mining(entries)])
    /\ UNCHANGED <<store_vars, mempool, api, tcp>>
    /\ api_frame

\* main.rs 172-182: the candidate is built and mined under the chain guard.
loop_mine_block ==
    /\ pc = "running"
    /\ Main.at = "mine_block"
    /\ \E now \in 0..MaxNow :
          \E block \in mine(mine_block(blocks, utxos, Main.txs, 1, now)) :
             Step("main", [Main EXCEPT !.at = "validate_and_add_block",
                                       !.block = block, !.base = blocks])
    /\ UNCHANGED <<store_vars, mempool, api, tcp>>
    /\ api_frame

\* The whole of validate_and_add_block(block) at clock `now`.
chain_validate_and_add_block(block, now) ==
    IF validate_and_add_block_accepts(blocks, utxos, block, now)
       THEN /\ blocks' = Append(blocks, block)
            /\ utxos' = rebuild_utxos(Append(blocks, block))
            /\ save_all(Append(blocks, block), rebuild_utxos(Append(blocks, block)))
       ELSE UNCHANGED <<blocks, utxos, blocks_file, utxos_file>>

\* main.rs 184-187.
loop_validate_and_add_block ==
    /\ pc = "running"
    /\ Main.at = "validate_and_add_block"
    /\ \E now \in 0..MaxNow :
          /\ chain_validate_and_add_block(Main.block, now)
          /\ Step("main", [Main EXCEPT
                              !.at = "remove_confirmed",
                              !.ok = validate_and_add_block_accepts(
                                        blocks, utxos, Main.block, now)])
    /\ UNCHANGED <<pc, call, offer, mempool, api, tcp>>
    /\ api_frame

\* main.rs 189-195, and back to the head of the loop.
loop_remove_confirmed ==
    /\ pc = "running"
    /\ Main.at = "remove_confirmed"
    /\ IF Main.ok
          THEN /\ entries' = remove_confirmed_pool(
                                ThePool, Main.block.transactions).entries
               /\ spent_outpoints' = remove_confirmed_pool(
                                ThePool, Main.block.transactions).spent_outpoints
               /\ mp_call' = MpCall("remove_confirmed", TRUE, NoTx)
          ELSE UNCHANGED <<entries, spent_outpoints, mp_call>>
    /\ Step("main", Fresh("sorted_for_mining"))
    /\ UNCHANGED <<store_vars, net, policy, mempool, api, tcp>>

\* p2p.rs 69-73: a Block message of a peer.
receive_block ==
    /\ pc = "running"
    /\ Len(blocks) < MaxLen
    /\ \E block \in ApiPeerBlocks(blocks), now \in 0..MaxNow :
          chain_validate_and_add_block(block, now)
    /\ UNCHANGED <<pc, call, offer, threads, mempool, api, tcp>>
    /\ api_frame

NextApi ==
    \/ new_transaction
    \/ status
    \/ loop_sorted_for_mining
    \/ loop_mine_block
    \/ loop_validate_and_add_block
    \/ loop_remove_confirmed
    \/ receive_block

SpecApi == InitApi /\ [][NextApi]_vars

(* ----------------------- properties of the two pools ------------------- *)

\* The transactions waiting in the node: those of the Mempool and those of
\* Blockchain::mempool.
Pending(e, list) ==
    {e[i].tx : i \in 1..Len(e)} \cup {list[i] : i \in 1..Len(list)}

\* tx is a transaction of a block of the chain.
Confirmed(chain, tx) ==
    \E i \in 1..Len(chain) : \E t \in 1..Len(chain[i].transactions) :
        txid(chain[i].transactions[t]) = txid(tx)

\* C36: once a block has been accepted, mined here or sent by a peer, no
\* waiting transaction is in the chain and every input of a waiting
\* transaction names an entry of the UTXO set.
C36_PoolFollowsChain ==
    [][blocks' # blocks
          => \A tx \in Pending(entries', mempool') :
                /\ ~ Confirmed(blocks', tx)
                /\ \A n \in 1..Len(tx.inputs) :
                      OutKey(tx.inputs[n].txid, tx.inputs[n].index)
                         \in DOMAIN utxos']_vars

\* C38: a transaction the API has taken is an entry of the Mempool the miner
\* selects from, and the status query reports the size of that Mempool.
C38_SubmittedReachesMiner ==
    /\ (api # NoApi /\ api.op = "new_transaction" /\ api.ok)
          => \E i \in 1..Len(entries) : entries[i].tx = api.tx
    /\ (api # NoApi /\ api.op = "status") => api.mempool = Len(entries)

\* C37: no call replaces the block at index 0 of the chain, and that block
\* is never among the orphans a call returns.
C37_GenesisIsFixed ==
    [][(Len(blocks) > 0 /\ Len(blocks') > 0)
          => /\ blocks'[1] = blocks[1]
             /\ \A i \in 1..Len(call'.orphaned) : call'.orphaned[i] # blocks[1]]_vars


(* --------------------------- the TCP peer table ------------------------ *)

\* P2PNetworkConfig::max_peers (50 by default in the source).
max_peers == 1
\* Calls of TcpStream::connect one connection thread is followed through.
MaxConnects == 4
\* max_attempts of connect_to_peer.
max_attempts == 3

\* Remote addresses that connect to the listener, and addresses the node
\* connects to.
InboundAddrs == {"in1", "in2", "in3"}
OutboundAddrs == {"out1"}

\* A thread of connect_to_peer: where it is, its attempts counter and the
\* number of times it called TcpStream::connect.
Connector(at, attempts, connects) == [at |-> at, attempts |-> attempts, connects |-> connects]

\* P2PNetwork::new: an empty peers map; no stream accepted, no thread started.
InitPeers ==
    /\ pc = "running"
    /\ blocks \in {chain \in PoolChains : Len(chain) = 2}
    /\ utxos = rebuild_utxos(blocks)
    /\ blocks_file = to_json(blocks)
    /\ utxos_file = to_json(utxos)
    /\ call = Idle
    /\ offer = "transactions"
    /\ entries = <<>>
    /\ spent_outpoints = {}
    /\ mp_call = MpCall("none", TRUE, NoTx)
    /\ threads = [t \in {"main"} |-> Fresh("idle")]
    /\ net = NoNet
    /\ policy = NoPolicy
    /\ mempool = <<>>
    /\ api = NoApi
    /\ tcp = [peers |-> {},
              inbound |-> [a \in InboundAddrs |-> "none"],
              outbound |-> [a \in OutboundAddrs |-> Connector("idle", 0, 0)]]

tcp_frame == UNCHANGED <<store_vars, entries, spent_outpoints, mp_call, threads, net, policy, mempool, api>>

\* One turn of the listener's loop over incoming(): it reads the length of
\* the map, lets the guard go, and either skips the stream or starts a
\* thread on handle_peer_connection.
start_listening(a) ==
    /\ tcp.inbound[a] = "none"
    /\ LET peers_count == Cardinality(tcp.peers)
       IN  tcp' = [tcp EXCEPT !.inbound[a] =
                      IF peers_count >= max_peers THEN "refused" ELSE "reading"]
    /\ tcp_frame

\* handle_peer_connection: after a read of at least one byte the peer goes
\* into the map unless its key is there; a failed or empty read adds nothing.
handle_peer_connection(a, read_ok) ==
    /\ tcp.inbound[a] = "reading"
    /\ tcp' = [tcp EXCEPT !.inbound[a] = "handled",
                          !.peers = IF read_ok /\ a \notin tcp.peers
                                    THEN tcp.peers \cup {a} ELSE @]
    /\ tcp_frame

\* connect_to_peer: the thread is started with attempts = 0.
connect_to_peer(a) ==
    /\ tcp.outbound[a].at = "idle"
    /\ tcp' = [tcp EXCEPT !.outbound[a] = Connector("loop", 0, 0)]
    /\ tcp_frame

\* One turn of the thread's while loop. connected and written are what
\* TcpStream::connect and write_all of the handshake answered.
connect_attempt(a, connected, written) ==
    /\ tcp.outbound[a].at = "loop"
    /\ tcp.outbound[a].attempts < max_attempts
    /\ tcp.outbound[a].connects < MaxConnects
    /\ LET c == tcp.outbound[a]
           n == c.connects + 1
       IN  IF connected /\ written
           THEN tcp' = [tcp EXCEPT !.outbound[a] = Connector("returned", c.attempts, n),
                                   !.peers = IF Cardinality(tcp.peers) >= max_peers
                                             THEN @ ELSE @ \cup {a}]
           ELSE IF connected
           THEN tcp' = [tcp EXCEPT !.outbound[a] = Connector("loop", c.attempts, n)]
           ELSE tcp' = [tcp EXCEPT !.outbound[a] = Connector("loop", c.attempts + 1, n)]
    /\ tcp_frame

\* The loop's condition fails and the thread ends.
connect_gives_up(a) ==
    /\ tcp.outbound[a].at = "loop"
    /\ tcp.outbound[a].attempts >= max_attempts
    /\ tcp' = [tcp EXCEPT !.outbound[a].at = "gave_up"]
    /\ tcp_frame

NextPeers ==
    \/ \E a \in InboundAddrs : start_listening(a)
    \/ \E a \in InboundAddrs, read_ok \in BOOLEAN : handle_peer_connection(a, read_ok)
    \/ \E a \in OutboundAddrs : connect_to_peer(a)
    \/ \E a \in OutboundAddrs, connected, written \in BOOLEAN : connect_attempt(a, connected, written)
    \/ \E a \in OutboundAddrs : connect_gives_up(a)

SpecPeers == InitPeers /\ [][NextPeers]_vars

\* C39: the peers map never holds more than max_peers peers, whatever the
\* order in which the listener, the handlers of inbound streams and the
\* threads of connect_to_peer take their steps.
C39_PeerLimit ==
    tcp # NoTcp => Cardinality(tcp.peers) <= max_peers

\* C40: a thread started by connect_to_peer calls TcpStream::connect at most
\* max_attempts times before it ends, whether a call fails, succeeds and the
\* handshake write fails, or succeeds altogether.
C40_ConnectAttemptsBounded ==
    tcp # NoTcp => \A a \in OutboundAddrs : tcp.outbound[a].connects <= max_attempts

====
